---- MODULE Spec2Model ----
(***************************************************************************)
(* pino-api-logger: the buffered rotating file writer (file-writer.ts),    *)
(* the rotation lock and the coordinator lock (registry.ts), and the       *)
(* archive and retention sweeps built on them.                             *)
(*                                                                         *)
(* One module, several specifications, one per subsystem:                  *)
(*   SpecW     one FileWriter, its streams, the log directory and peers    *)
(*   SpecQ     the runs of SpecW without threshold flush and rotation      *)
(*   SpecWF    the writer while a peer holds the rotation lock for good,   *)
(*             every continuation of the writer eventually run             *)
(*   SpecR     processes racing for the rotation lock and the next file    *)
(*   SpecC     the candidates for coordinator of one directory; SpecCF the *)
(*             same with every enabled step eventually taken               *)
(*   SpecM     the archive and retention schedulers of one process         *)
(*   SpecA     the archive sweep over a directory, with clock and time zone*)
(*   SpecN     archive sweeps running at the same time on one directory    *)
(*   SpecK     the retention sweep over a directory, with clock and time   *)
(*             zone                                                        *)
(*   SpecP     a writer constructed in a directory in which peers rotate   *)
(*             by size, with overflow names made from the clock            *)
(*   SpecE     one FileWriter whose directory cannot be created or whose   *)
(*             streams emit errors                                         *)
(*   SpecG     the writer registry of one process (getOrCreateFileWriter)  *)
(*   SpecV     the validation of the options given to createLogger         *)
(*   SpecT     file and artifact names generated and parsed back            *)
(*   SpecX     the end of a process that coordinates directories            *)
(*   SpecS     the archiver and retention controllers of a process          *)
(*   SpecU     a writer whose rotation frequency is updated, and its files  *)
(* Every specification leaves the variables of the other subsystems at     *)
(* their initial value.                                                    *)
(***************************************************************************)
EXTENDS Integers, Sequences, FiniteSets, TLC

(***************************************************************************)
(* Bounds of the model.                                                    *)
(***************************************************************************)
\* write() calls accepted by the writer
MaxLines == 3
\* wall-clock periods 0..MaxPeriod (days or hours, by the rotation frequency)
MaxPeriod == 1
\* overflow files per period
MaxOverflow == 4
\* failed lock attempts before waitForRotationLock gives up (the code: 50)
MaxLockRetries == 2
\* lines that peer processes append to files of the directory
MaxPeerAppends == 1

(***************************************************************************)
(* Configuration of the writer (constructor options, in bytes and lines).  *)
(***************************************************************************)
maxBufferLines == 3
maxBufferBytes == 4
maxLogSizeBytes == 4
\* bytes of one line appended by a peer process
PeerLineBytes == 2

(***************************************************************************)
(* SpecW: the state of one FileWriter and of its environment.              *)
(***************************************************************************)
VARIABLES
  \* fields of FileWriter
  buffer, bufferBytes, bytesWritten, currentPeriod, currentFilePath, stream,
  isClosed, isFlushing, isRotating, pendingWrites, flushTimer,
  \* fs.WriteStream objects created by openStream: path, queued chunks, ended,
  \* and as history the size of the file when the stream was opened and the
  \* lines written to the stream
  streams,
  \* the log directory: which paths exist, this writer's lines in each file (in
  \* append order) and the bytes peers appended to it
  exists, files, peerBytes,
  \* the .rotation-lock marker as this process sees it: free, own, peer, stale
  rlock,
  \* the wall-clock period
  wallPeriod,
  \* position of each asynchronous call chain of the writer, its lock attempts,
  \* whether it got the lock, its dueToSize argument, and the chains whose
  \* awaited stream.write callback has fired
  pc, tries, gotLock, dueToSize, cb,
  \* history: the lines accepted by write() (index = line id), the ids in the
  \* order they were appended to disk, the kinds of event seen so far, how many
  \* lines were accepted when the last forced flush took the buffer, the file
  \* that was current when a line tripped the size check, peer appends, and
  \* the sizes of the primary and of the overflow file the constructor found,
  \* the lines that were in the buffer when a flush found the current file
  \* full on disk, each with that file, and how many lines were accepted when
  \* close() was called (-1 before)
  sub, hist, seen, flushedAt, trig, peerAppends, found, skipped, closedAt

wvars == <<buffer, bufferBytes, bytesWritten, currentPeriod, currentFilePath, stream,
           isClosed, isFlushing, isRotating, pendingWrites, flushTimer, streams,
           exists, files, peerBytes, rlock, wallPeriod, pc, tries, gotLock,
           dueToSize, cb, sub, hist, seen, flushedAt, trig, peerAppends, found,
           skipped, closedAt>>

(***************************************************************************)
(* SpecR: several processes rotate away from the same full file.           *)
(***************************************************************************)
VARIABLES
  \* the .rotation-lock directory: who made it (0: a process that died since,
  \* -1: no marker) and whether it is older than ROTATION_LOCK_STALE_MS
  marker,
  \* each process: position in rotateStream, failed lock attempts, gotLock, the
  \* path findAvailableLogPath returned
  rp,
  \* the overflow files of the period that exist, by name
  dir,
  \* the second of the wall clock, from which overflow names are made
  clock

rvars == <<marker, rp, dir, clock>>

(***************************************************************************)
(* SpecC: the candidates for coordinator of one log directory.             *)
(***************************************************************************)
VARIABLES
  \* the .coordinator-lock directory: who made it (-1: no lock) and whether
  \* its mtime is older than COORDINATOR_LOCK_STALE_MS
  cmarker,
  \* each process: cluster role, position in tryClaimCoordinator, whether
  \* coordinatorRegistry has the directory, whether the claim was made
  cand,
  \* history: the process that released the coordinator role (0: none yet)
  crel

cvars == <<cmarker, cand, crel>>

(***************************************************************************)
(* SpecM: the maintenance schedulers of one process (archiver.ts,          *)
(* retention.ts) and the worker threads they start.                        *)
(***************************************************************************)
VARIABLES
  \* resolved options and isCoordinator(logDir) of the process
  mcfg,
  \* createLogger was called
  mcreated,
  \* the cron task of the archiver and of the retention scheduler is active
  mtask,
  \* the tick of each cron task is due in the current minute
  mdue,
  \* archive and retention worker threads that are running
  mrun,
  \* the current minute slot
  mslot

mvars == <<mcfg, mcreated, mtask, mdue, mrun, mslot>>

(***************************************************************************)
(* SpecA: the archive sweep (archiver-worker.ts) over a log directory.     *)
(***************************************************************************)
VARIABLES
  \* archive frequency, rotation frequency and the UTC offset of local time
  acfg,
  \* the instant, in hours since a Monday 00:00 UTC
  anow,
  \* the .log files of the directory: name (UTC day, hour or -1) and the
  \* instant the file was created
  alogs,
  \* the artifacts of the archive directory: period label, counter of the
  \* name, member files
  aarch,
  \* the sweep: position, its `now`, its currentPeriod, the files it listed,
  \* the periods still to archive, and how many sweeps have started
  asweep,
  \* history: <<created, archived at>> of every file a sweep compressed and
  \* deleted
  adone

avars == <<acfg, anow, alogs, aarch, asweep, adone>>

(***************************************************************************)
(* SpecN: archive sweeps (archiver-worker.ts) running at the same time on  *)
(* one directory, one await at a time.                                     *)
(***************************************************************************)
VARIABLES
  \* the .log files of the directory
  nlogs,
  \* the artifacts of the archive directory: period label, counter of the
  \* name, member files (none: the file is there but holds no complete
  \* archive), and the sweep that wrote it (0: it was there before)
  narch,
  \* each sweep: position, the files it grouped, the periods still to
  \* archive, the counter of the name it is trying
  nsw,
  \* history: <<file, sweep>> of every unlink that removed a file
  ndel

nvars == <<nlogs, narch, nsw, ndel>>

(***************************************************************************)
(* SpecK: the retention sweep (retention-worker.ts) over a log directory.  *)
(***************************************************************************)
VARIABLES
  \* rotation frequency, unit of the retention period, UTC offset of local time
  kcfg,
  \* the instant, in hours since a Monday 00:00 UTC
  know,
  \* the .log files of the directory and the names of the artifacts of the
  \* archive directory
  klogs, karch,
  \* the sweep: position, its `now`, the .log files it listed, whether an
  \* unlink has failed
  ksweep,
  \* history: the .log files the sweeps have unlinked
  kgone

kvars == <<kcfg, know, klogs, karch, ksweep, kgone>>

(***************************************************************************)
(* SpecP: the overflow files of a directory by their names                 *)
(* (file-writer.ts: generateOverflowCandidates, findAvailableLogPath).     *)
(***************************************************************************)
VARIABLES
  \* rotation frequency and UTC offset of local time
  pcfg,
  \* the instant, in seconds since 00:00 UTC of day 0
  pnow,
  \* the overflow files: name, the instant the name was made, the instant
  \* the file was created, whether it has reached maxLogSizeBytes
  pfiles,
  \* the periods whose primary file has reached maxLogSizeBytes
  pfull,
  \* each peer process: position in its rotation, its currentPeriod, the
  \* file it has open, the path its findAvailableLogPath returned
  ppeer,
  \* the writer under construction: done, the path it opened, its period,
  \* the directory and the state of the primary file as it found them
  pwr

pvars == <<pcfg, pnow, pfiles, pfull, ppeer, pwr>>

(***************************************************************************)
(* SpecE: a FileWriter and the faults of its directory and streams.        *)
(***************************************************************************)
VARIABLES
  \* the writer: isEnabled, stream (index into streams, 0: undefined), the
  \* streams openStream created (path, errorCounter of the handler, state),
  \* the pending reopen timeouts, the lines in the buffer, the lines on disk
  \* by path, whether the flush interval is set; and history: the write()
  \* calls made, those that returned at the guard, the rotations made,
  \* whether mkdirSync failed, whether an error was emitted or a
  \* promise rejected with nothing to handle it
  ew

evars == <<ew>>

(***************************************************************************)
(* SpecG: the writer registry of one process (registry.ts).                *)
(***************************************************************************)
VARIABLES
  \* writerRegistry: the logDir strings that are keys, each with the index of
  \* its FileWriter (0: no entry)
  greg,
  \* the FileWriter instances constructed: the directory their stream is in
  \* and their options
  gwriters,
  \* history: every registration made, as <<directory, options>>, and the
  \* instance the last call returned
  gcalls, gret

gvars == <<greg, gwriters, gcalls, gret>>

(***************************************************************************)
(* SpecV: createLogger validates its options (index.ts).                   *)
(***************************************************************************)
VARIABLES
  \* the options given to createLogger, after defaults
  vopts,
  \* the outcome of validateLoggerOptions: not called yet, an Error thrown,
  \* or the resolved options returned
  vout

vvars == <<vopts, vout>>

(***************************************************************************)
(* SpecT: names generated from an instant and parsed back (file-writer.ts, *)
(* archiver-worker.ts, utilities.ts).                                      *)
(***************************************************************************)
VARIABLES
  \* rotation frequency, archive frequency, UTC offset of local time
  tcfg,
  \* the instant, in hours since a Monday 00:00 UTC
  tnow,
  \* the rotation file a writer named at tnow and the artifact a sweep named
  \* from it (<<>>: none yet)
  tfile, tart,
  \* what parseLogFilename and parseArchiveFilename returned for them
  tparsed

tvars == <<tcfg, tnow, tfile, tart, tparsed>>

(***************************************************************************)
(* SpecX: a process, the directories it coordinates and the way it ends    *)
(* (registry.ts: releaseAllCoordinators, registerCleanupHandlers).         *)
(***************************************************************************)
VARIABLES
  \* the process: cluster role, how it ended ("alive": it has not), the keys
  \* of coordinatorRegistry, the heartbeat intervals that are set; and
  \* history: the directories it was coordinator of when it ended, and those
  \* of them whose marker was its own
  xp,
  \* the .coordinator-lock of each directory: who made it (0: not there,
  \* 1: the process, 2: a peer) and whether its mtime is older than
  \* COORDINATOR_LOCK_STALE_MS
  xmarker

xvars == <<xp, xmarker>>

(***************************************************************************)
(* SpecS: the archiver and retention controllers of the loggers of one     *)
(* process on one log directory (registry.ts, archiver.ts, retention.ts).  *)
(***************************************************************************)
VARIABLES
  \* the process: the options of each logger, isCoordinator(logDir), the
  \* loggers created, isRunning of each controller, archiverRegistry and
  \* retentionRegistry (the cron task and the options of the entry, task 0:
  \* no entry), the cron tasks scheduled (kind, active), the worker threads
  \* in flight
  sc,
  \* the handler that ran last, as <<name, kind>>, for the ticks and the
  \* stop() calls
  sevent,
  \* history, by kind: stop() of a started controller has returned and
  \* start() has not been called since; a tick has launched a sweep
  sstopped, sticked

svars == <<sc, sevent, sstopped, sticked>>

(***************************************************************************)
(* SpecU: a FileWriter whose rotation frequency is updated, and the names  *)
(* of the files it opens (file-writer.ts).                                 *)
(***************************************************************************)
VARIABLES
  \* the writer: rotationFrequency, currentPeriod, currentFilePath, and the
  \* time zone of the process
  uw,
  \* the clock, in hours
  unow,
  \* the files of the directory and those that have reached maxLogSizeBytes
  ufiles, ufull,
  \* history: the files lines were appended to, each with the period the
  \* writer tracked at that moment
  uappends

uvars == <<uw, unow, ufiles, ufull, uappends>>

vars == <<wvars, rvars, cvars, mvars, avars, nvars, kvars, pvars, evars, gvars, vvars, tvars,
          xvars, svars, uvars>>

\* What each specification leaves alone.
othersW == <<rvars, cvars, mvars, avars, nvars, kvars, pvars, evars, gvars, vvars, tvars, xvars, svars, uvars>>
othersR == <<wvars, cvars, mvars, avars, nvars, kvars, pvars, evars, gvars, vvars, tvars, xvars, svars, uvars>>
othersC == <<wvars, rvars, mvars, avars, nvars, kvars, pvars, evars, gvars, vvars, tvars, xvars, svars, uvars>>
othersM == <<wvars, rvars, cvars, avars, nvars, kvars, pvars, evars, gvars, vvars, tvars, xvars, svars, uvars>>
othersA == <<wvars, rvars, cvars, mvars, nvars, kvars, pvars, evars, gvars, vvars, tvars, xvars, svars, uvars>>
othersN == <<wvars, rvars, cvars, mvars, avars, kvars, pvars, evars, gvars, vvars, tvars, xvars, svars, uvars>>
othersK == <<wvars, rvars, cvars, mvars, avars, nvars, pvars, evars, gvars, vvars, tvars, xvars, svars, uvars>>
othersP == <<wvars, rvars, cvars, mvars, avars, nvars, kvars, evars, gvars, vvars, tvars, xvars, svars, uvars>>
othersE == <<wvars, rvars, cvars, mvars, avars, nvars, kvars, pvars, gvars, vvars, tvars, xvars, svars, uvars>>
othersG == <<wvars, rvars, cvars, mvars, avars, nvars, kvars, pvars, evars, vvars, tvars, xvars, svars, uvars>>
othersV == <<wvars, rvars, cvars, mvars, avars, nvars, kvars, pvars, evars, gvars, tvars, xvars, svars, uvars>>
othersT == <<wvars, rvars, cvars, mvars, avars, nvars, kvars, pvars, evars, gvars, vvars, xvars, svars, uvars>>
othersX == <<wvars, rvars, cvars, mvars, avars, nvars, kvars, pvars, evars, gvars, vvars, tvars, svars, uvars>>
othersS == <<wvars, rvars, cvars, mvars, avars, nvars, kvars, pvars, evars, gvars, vvars, tvars, xvars, uvars>>
othersU == <<wvars, rvars, cvars, mvars, avars, nvars, kvars, pvars, evars, gvars, vvars, tvars, xvars, svars>>

\* The asynchronous call chains: R = the rotation started by write(), F = the
\* flush started by flushIfNeeded(), C = close().
Chains == {"R", "F", "C"}

\* A path of the directory: <<period, 0>> is the primary file `<period>.log`,
\* <<period, k>> the k-th overflow file of the period in name order.
Paths == (0..MaxPeriod) \X (0..MaxOverflow)
NoPath == <<-1, -1>>

\* The messages handed to write(): with or without the trailing newline.
Msgs == { [len |-> 1, nl |-> FALSE], [len |-> 1, nl |-> TRUE], [len |-> 2, nl |-> TRUE] }

\* The whole state as one record, so that the synchronous code of a handler
\* is a composition of functions on it.
World ==
  [ buffer |-> buffer, bufferBytes |-> bufferBytes, bytesWritten |-> bytesWritten,
    currentPeriod |-> currentPeriod, currentFilePath |-> currentFilePath,
    stream |-> stream, isClosed |-> isClosed, isFlushing |-> isFlushing,
    isRotating |-> isRotating, pendingWrites |-> pendingWrites,
    flushTimer |-> flushTimer, streams |-> streams, exists |-> exists,
    files |-> files, peerBytes |-> peerBytes, rlock |-> rlock,
    wallPeriod |-> wallPeriod, pc |-> pc, tries |-> tries, gotLock |-> gotLock,
    dueToSize |-> dueToSize, cb |-> cb, sub |-> sub, hist |-> hist, seen |-> seen,
    flushedAt |-> flushedAt, trig |-> trig, peerAppends |-> peerAppends,
    found |-> found, skipped |-> skipped, closedAt |-> closedAt ]

Become(n) ==
  \E m \in {n} :
    /\ buffer' = m.buffer /\ bufferBytes' = m.bufferBytes
    /\ bytesWritten' = m.bytesWritten /\ currentPeriod' = m.currentPeriod
    /\ currentFilePath' = m.currentFilePath /\ stream' = m.stream
    /\ isClosed' = m.isClosed /\ isFlushing' = m.isFlushing
    /\ isRotating' = m.isRotating /\ pendingWrites' = m.pendingWrites
    /\ flushTimer' = m.flushTimer /\ streams' = m.streams /\ exists' = m.exists
    /\ files' = m.files /\ peerBytes' = m.peerBytes /\ rlock' = m.rlock
    /\ wallPeriod' = m.wallPeriod /\ pc' = m.pc /\ tries' = m.tries
    /\ gotLock' = m.gotLock /\ dueToSize' = m.dueToSize /\ cb' = m.cb
    /\ sub' = m.sub /\ hist' = m.hist /\ seen' = m.seen
    /\ flushedAt' = m.flushedAt /\ trig' = m.trig /\ peerAppends' = m.peerAppends
    /\ found' = m.found /\ skipped' = m.skipped /\ closedAt' = m.closedAt
    /\ UNCHANGED othersW

\* The state is n (for initial states).
Is(n) ==
  /\ buffer = n.buffer /\ bufferBytes = n.bufferBytes
  /\ bytesWritten = n.bytesWritten /\ currentPeriod = n.currentPeriod
  /\ currentFilePath = n.currentFilePath /\ stream = n.stream
  /\ isClosed = n.isClosed /\ isFlushing = n.isFlushing
  /\ isRotating = n.isRotating /\ pendingWrites = n.pendingWrites
  /\ flushTimer = n.flushTimer /\ streams = n.streams /\ exists = n.exists
  /\ files = n.files /\ peerBytes = n.peerBytes /\ rlock = n.rlock
  /\ wallPeriod = n.wallPeriod /\ pc = n.pc /\ tries = n.tries
  /\ gotLock = n.gotLock /\ dueToSize = n.dueToSize /\ cb = n.cb
  /\ sub = n.sub /\ hist = n.hist /\ seen = n.seen
  /\ flushedAt = n.flushedAt /\ trig = n.trig /\ peerAppends = n.peerAppends
  /\ found = n.found /\ skipped = n.skipped /\ closedAt = n.closedAt

(***************************************************************************)
(* Pure helpers of the writer.                                             *)
(***************************************************************************)
\* Buffer.byteLength of the lines with the given ids (s = the accepted lines).
RECURSIVE SumBytes(_, _)
SumBytes(ids, s) ==
  IF ids = <<>> THEN 0 ELSE s[Head(ids)].bytes + SumBytes(Tail(ids), s)

\* A write() that passes the message on as it came.
LineAsGiven(msg) == [bytes |-> msg.len, nl |-> msg.nl]

\* write(): line = msg.endsWith("\n") ? msg : msg + "\n"
Line(msg) == [bytes |-> IF msg.nl THEN msg.len ELSE msg.len + 1, nl |-> TRUE]

\* fs.statSync(p).size; a file that does not exist counts 0 (the catch branches)
FileSize(w, p) ==
  IF p \in w.exists THEN w.peerBytes[p] + SumBytes(w.files[p], w.sub) ELSE 0

getLogPath(period) == <<period, 0>>

\* The loop of findAvailableLogPath over the overflow files of the current
\* period, newest name first: the index of the first with spare capacity, 0
\* when there is none.
RECURSIVE ScanOverflow(_, _, _)
ScanOverflow(w, k, excludeCurrentFile) ==
  IF k = 0 THEN 0
  ELSE LET p == <<w.currentPeriod, k>> IN
       IF /\ p \in w.exists
          /\ ~(excludeCurrentFile /\ p = w.currentFilePath)
          /\ FileSize(w, p) < maxLogSizeBytes
       THEN k
       ELSE ScanOverflow(w, k - 1, excludeCurrentFile)

\* A name that does not exist yet; it is generated from the clock, so it sorts
\* after the overflow files that exist.
getOverflowLogPathSync(w) ==
  LET ks == {k \in 1..MaxOverflow : <<w.currentPeriod, k>> \in w.exists}
  IN <<w.currentPeriod,
       IF ks = {} THEN 1 ELSE (CHOOSE k \in ks : \A j \in ks : j <= k) + 1>>

\* A findAvailableLogPath that takes the main log without looking at its size.
findAvailableLogPathAnySize(w, excludeCurrentFile) ==
  LET mainLogPath == getLogPath(w.currentPeriod)
      k == ScanOverflow(w, MaxOverflow, excludeCurrentFile)
  IN IF ~(excludeCurrentFile /\ w.currentFilePath = mainLogPath)
     THEN mainLogPath
     ELSE IF k > 0 THEN <<w.currentPeriod, k>> ELSE getOverflowLogPathSync(w)

findAvailableLogPath(w, excludeCurrentFile) ==
  LET mainLogPath == getLogPath(w.currentPeriod)
      k == ScanOverflow(w, MaxOverflow, excludeCurrentFile)
  IN IF /\ ~(excludeCurrentFile /\ w.currentFilePath = mainLogPath)
        /\ (mainLogPath \notin w.exists \/ FileSize(w, mainLogPath) < maxLogSizeBytes)
     THEN mainLogPath
     ELSE IF k > 0 THEN <<w.currentPeriod, k>> ELSE getOverflowLogPathSync(w)

\* openStream: track the path, seed bytesWritten with the size on disk, create
\* the append stream (which creates the file).
openStream(w, filepath) ==
  [w EXCEPT !.currentFilePath = filepath,
            !.bytesWritten = FileSize(w, filepath),
            !.streams = Append(@, [path |-> filepath, queue |-> <<>>, ended |-> FALSE,
                                   opened |-> FileSize(w, filepath), sent |-> <<>>]),
            !.stream = Len(w.streams) + 1,
            !.exists = @ \cup {filepath}]

\* this.stream?.end()
endStream(w) ==
  IF w.stream = 0 THEN w ELSE [w EXCEPT !.streams[w.stream].ended = TRUE]

\* flushBuffer, from `chunk = buffer.join("")` to stream.write(chunk): the buffer
\* is taken and queued on the current stream for chain c, which then awaits the
\* write callback. A write after end() fails: the chunk is lost and the callback
\* reports the error. The chunks of the model are shorter than the
\* highWaterMark of the stream: write() returns true and the promise settles in
\* the write callback, never in the drain handler.
writeChunk(w, c) ==
  LET taken == [w EXCEPT !.buffer = <<>>, !.bufferBytes = 0,
                         !.flushedAt = Len(w.sub)]
  IN IF w.streams[w.stream].ended
     THEN [taken EXCEPT !.cb = @ \cup {c}]
     ELSE [taken EXCEPT !.streams[w.stream].queue =
                          Append(@, [lines |-> w.buffer, waiter |-> c]),
                        !.streams[w.stream].sent = @ \o w.buffer]

\* tryAcquireRotationLock: a stale marker is removed, then mkdir succeeds iff
\* no marker is there.
canAcquireRotationLock(w) == w.rlock \in {"free", "stale"}

\* rotateStream up to its first await: the first attempt of
\* waitForRotationLock is made synchronously by the caller.
startRotate(w, c, dts) ==
  LET w1 == [w EXCEPT !.seen = @ \cup {"rotation"}, !.dueToSize[c] = dts]
  IN IF canAcquireRotationLock(w)
     THEN [w1 EXCEPT !.rlock = "own", !.gotLock[c] = TRUE, !.pc[c] = "locked"]
     ELSE [w1 EXCEPT !.gotLock[c] = FALSE, !.tries[c] = 1, !.pc[c] = "lockwait"]

\* rotateStream, both branches, after the optional flush: end the old stream,
\* re-read the period, find the new path, open it, release the lock if held.
switchStream(w, c) ==
  LET w1 == [endStream(w) EXCEPT !.currentPeriod = w.wallPeriod]
      w2 == openStream(w1, findAvailableLogPath(w1, w.dueToSize[c]))
      w3 == [w2 EXCEPT !.gotLock[c] = FALSE, !.dueToSize[c] = FALSE, !.tries[c] = 0]
  IN IF w.gotLock[c] THEN [w3 EXCEPT !.rlock = "free"] ELSE w3

\* What follows a flushBuffer that returned without writing.
afterFlush(w, c) ==
  IF c = "F" THEN [w EXCEPT !.pc["F"] = "fin"]
  ELSE [endStream(w) EXCEPT !.pc["C"] = "closed"]

\* flushBuffer as called by flushIfNeeded (c = "F") and by close (c = "C"), up
\* to its first await.
flushBuffer(w, c) ==
  IF w.stream = 0
  THEN afterFlush([w EXCEPT !.buffer = <<>>, !.bufferBytes = 0], c)
  ELSE IF ~w.isRotating /\ FileSize(w, w.currentFilePath) >= maxLogSizeBytes
       THEN startRotate([w EXCEPT !.skipped = @ \cup
                           {<<w.buffer[i], w.currentFilePath>> : i \in 1..Len(w.buffer)}],
                        c, TRUE)
       ELSE [writeChunk(w, c) EXCEPT !.pc[c] = "fwait"]

flushIfNeeded(w) ==
  IF w.buffer = <<>> \/ w.isFlushing THEN w
  ELSE flushBuffer([w EXCEPT !.isFlushing = TRUE], "F")

overThreshold(w) ==
  Len(w.buffer) >= maxBufferLines \/ w.bufferBytes >= maxBufferBytes

processPendingWrites(w) ==
  IF w.pendingWrites = <<>> THEN w
  ELSE LET n == SumBytes(w.pendingWrites, w.sub)
           w1 == [w EXCEPT !.bytesWritten = @ + n,
                           !.buffer = @ \o w.pendingWrites,
                           !.bufferBytes = @ + n,
                           !.pendingWrites = <<>>]
       IN IF overThreshold(w1)
          THEN flushIfNeeded([w1 EXCEPT !.seen = @ \cup {"threshold"}])
          ELSE w1

\* A write() without the isRotating branch.
writeWhileRotating(w, msg) ==
  LET line == Line(msg)
      id == Len(w.sub) + 1
      w0 == [w EXCEPT !.sub = Append(@, line)]
      wouldExceedSize == w.bytesWritten + line.bytes >= maxLogSizeBytes
      needsRotation == w.wallPeriod # w.currentPeriod \/ wouldExceedSize
  IN IF w.stream = 0 THEN w
     ELSE IF needsRotation /\ ~w.isRotating
     THEN startRotate([w0 EXCEPT !.isRotating = TRUE,
                                 !.pendingWrites = Append(@, id),
                                 !.trig[id] = IF wouldExceedSize
                                              THEN w.currentFilePath ELSE NoPath],
                      "R", wouldExceedSize)
     ELSE LET w1 == [w0 EXCEPT !.bytesWritten = @ + line.bytes,
                               !.buffer = Append(@, id),
                               !.bufferBytes = @ + line.bytes]
          IN IF overThreshold(w1)
             THEN flushIfNeeded([w1 EXCEPT !.seen = @ \cup {"threshold"}])
             ELSE w1

\* write(msg); the accepted line gets the next id.
write(w, msg) ==
  LET line == Line(msg)
      id == Len(w.sub) + 1
      w0 == [w EXCEPT !.sub = Append(@, line)]
      wouldExceedSize == w.bytesWritten + line.bytes >= maxLogSizeBytes
      needsRotation == w.wallPeriod # w.currentPeriod \/ wouldExceedSize
  IN IF w.stream = 0 THEN w
     ELSE IF w.isRotating THEN [w0 EXCEPT !.pendingWrites = Append(@, id)]
     ELSE IF needsRotation
     THEN startRotate([w0 EXCEPT !.isRotating = TRUE,
                                 !.pendingWrites = Append(@, id),
                                 !.trig[id] = IF wouldExceedSize
                                              THEN w.currentFilePath ELSE NoPath],
                      "R", wouldExceedSize)
     ELSE LET w1 == [w0 EXCEPT !.bytesWritten = @ + line.bytes,
                               !.buffer = Append(@, id),
                               !.bufferBytes = @ + line.bytes]
          IN IF overThreshold(w1)
             THEN flushIfNeeded([w1 EXCEPT !.seen = @ \cup {"threshold"}])
             ELSE w1

\* A close() without the isClosed test.
closeUnguarded(w) ==
  flushBuffer(processPendingWrites([w EXCEPT !.isClosed = TRUE,
                                            !.flushTimer = FALSE,
                                            !.closedAt = Len(w.sub)]), "C")

\* close(), up to the await of its flushBuffer.
close(w) ==
  IF w.isClosed THEN w
  ELSE flushBuffer(processPendingWrites([w EXCEPT !.isClosed = TRUE,
                                                 !.flushTimer = FALSE,
                                                 !.closedAt = Len(w.sub)]), "C")

(***************************************************************************)
(* SpecR: the rotation lock and the path search, one system call at a      *)
(* time. Every process has the full primary file open and rotates once by  *)
(* size; the overflow files that appear have spare capacity.               *)
(***************************************************************************)
\* processes sharing the directory
NumProcs == 2
\* seconds the wall clock may advance
MaxClock == 1

Procs == 1..NumProcs
NoMarker == [owner |-> -1, stale |-> FALSE]
\* left by a process that died more than ROTATION_LOCK_STALE_MS ago
DeadMarker == [owner |-> 0, stale |-> TRUE]

InitR ==
  /\ marker \in {NoMarker, DeadMarker}
  /\ rp = [p \in Procs |-> [pc |-> "stat", tries |-> 0, got |-> FALSE, path |-> -1]]
  /\ dir = {}
  /\ clock = 0

\* The other subsystems while SpecR runs, and SpecR while they run.
IdleR ==
  /\ marker = NoMarker
  /\ rp = [p \in Procs |-> [pc |-> "stat", tries |-> 0, got |-> FALSE, path |-> -1]]
  /\ dir = {}
  /\ clock = 0

\* tryAcquireRotationLock: statSync(lock) and the age test
StatLock(p) ==
  /\ rp[p].pc = "stat"
  /\ rp' = [rp EXCEPT ![p].pc = IF marker # NoMarker /\ marker.stale
                                THEN "rmdir" ELSE "mkdir"]
  /\ UNCHANGED <<marker, dir, clock, othersR>>

\* tryAcquireRotationLock: rmdirSync(lock) of the marker found stale; it
\* removes the directory of that name, whoever made it
RemoveStale(p) ==
  /\ rp[p].pc = "rmdir"
  /\ marker' = NoMarker
  /\ rp' = [rp EXCEPT ![p].pc = "mkdir"]
  /\ UNCHANGED <<dir, clock, othersR>>

\* tryAcquireRotationLock: mkdirSync(lock); on failure waitForRotationLock
\* sleeps and retries, and gives up after the last retry
MakeLock(p) ==
  /\ rp[p].pc = "mkdir"
  /\ IF marker = NoMarker
     THEN /\ marker' = [owner |-> p, stale |-> FALSE]
          /\ rp' = [rp EXCEPT ![p].got = TRUE, ![p].pc = "find"]
     ELSE /\ marker' = marker
          /\ rp' = [rp EXCEPT ![p].tries = @ + 1,
                              ![p].pc = IF rp[p].tries + 1 >= MaxLockRetries
                                        THEN "find" ELSE "stat"]
  /\ UNCHANGED <<dir, clock, othersR>>

\* the newest name of a set of overflow names
Newest(names) == CHOOSE n \in names : \A m \in names : m <= n

\* rotateStream, either branch: stream.end(); findAvailableLogPath(true). The
\* primary file is the current one and full; the newest overflow file with
\* spare capacity is taken, else a name is made from the clock.
FindPath(p) ==
  /\ rp[p].pc = "find"
  /\ rp' = [rp EXCEPT ![p].path = IF dir # {} THEN Newest(dir) ELSE clock,
                      ![p].pc = IF rp[p].got THEN "release" ELSE "create"]
  /\ UNCHANGED <<marker, dir, clock, othersR>>

\* releaseRotationLock, right after openStream returned: rmdirSync(lock)
ReleaseLock(p) ==
  /\ rp[p].pc = "release"
  /\ marker' = NoMarker
  /\ rp' = [rp EXCEPT ![p].pc = "create"]
  /\ UNCHANGED <<dir, clock, othersR>>

\* openStream: the stream created by createWriteStream(path, {flags: "a"})
\* opens its file, creating it when it is not there
CreateFile(p) ==
  /\ rp[p].pc = "create"
  /\ dir' = dir \cup {rp[p].path}
  /\ rp' = [rp EXCEPT ![p].pc = "done"]
  /\ UNCHANGED <<marker, clock, othersR>>

ClockTick ==
  /\ clock < MaxClock
  /\ clock' = clock + 1
  /\ UNCHANGED <<marker, rp, dir, othersR>>

NextR ==
  \/ \E p \in Procs : StatLock(p)
  \/ \E p \in Procs : RemoveStale(p)
  \/ \E p \in Procs : MakeLock(p)
  \/ \E p \in Procs : FindPath(p)
  \/ \E p \in Procs : ReleaseLock(p)
  \/ \E p \in Procs : CreateFile(p)
  \/ ClockTick

(***************************************************************************)
(* SpecW: initial state and actions.                                       *)
(***************************************************************************)
\* The directory found by the constructor: no file of the period yet, an
\* empty primary file, or a primary file that a previous run left full.
InitPrimarySizes == {-1, 0, maxLogSizeBytes}

\* The rotation lock as the constructor finds it: free, or held by a live peer
\* (stale markers are the subject of SpecL).
InitLocks == {"free", "peer"}

\* The overflow file of the period that a previous run left beside a full
\* primary file: none, one with spare capacity, or a full one.
InitOverflowSizes(b) == IF b >= maxLogSizeBytes THEN {-1, 1, maxLogSizeBytes} ELSE {-1}

\* The writer before openStream, over a directory whose primary file of period
\* 0 has b bytes and whose first overflow file has o bytes (-1: no such file),
\* and whose rotation lock is l.
Blank(b, o, l) ==
  [ buffer |-> <<>>, bufferBytes |-> 0, bytesWritten |-> 0, currentPeriod |-> 0,
    currentFilePath |-> NoPath, stream |-> 0, isClosed |-> FALSE,
    isFlushing |-> FALSE, isRotating |-> FALSE, pendingWrites |-> <<>>,
    flushTimer |-> TRUE, streams |-> <<>>,
    exists |-> (IF b < 0 THEN {} ELSE {getLogPath(0)})
                 \cup (IF o < 0 THEN {} ELSE {<<0, 1>>}),
    files |-> [p \in Paths |-> <<>>],
    peerBytes |-> [p \in Paths |-> IF p = getLogPath(0) /\ b > 0 THEN b
                                   ELSE IF p = <<0, 1>> /\ o > 0 THEN o ELSE 0],
    rlock |-> l, wallPeriod |-> 0,
    pc |-> [c \in Chains |-> "idle"], tries |-> [c \in Chains |-> 0],
    gotLock |-> [c \in Chains |-> FALSE], dueToSize |-> [c \in Chains |-> FALSE],
    cb |-> {}, sub |-> <<>>, hist |-> <<>>, seen |-> {}, flushedAt |-> 0,
    trig |-> [i \in 1..MaxLines |-> NoPath], peerAppends |-> 0,
    found |-> [primary |-> b, overflow |-> o], skipped |-> {}, closedAt |-> -1 ]

\* constructor: currentPeriod = getPeriodString(); openStream(findAvailableLogPath())
constructor(b, o, l) ==
  openStream(Blank(b, o, l), findAvailableLogPath(Blank(b, o, l), FALSE))

InitWriter ==
  \E b \in InitPrimarySizes, l \in InitLocks :
    \E o \in InitOverflowSizes(b) : Is(constructor(b, o, l))

\* The writer while the other subsystems run.
IdleW == Is(constructor(-1, -1, "free"))

\* Positions from which a chain continues in a microtask: nothing but other
\* microtasks and the synchronous code that queued them runs before it.
MicroPcs == {"locked", "then", "fin"}
NoMicro == \A c \in Chains : pc[c] \notin MicroPcs

\* The rotation may open the next overflow file of the model.
CanSwitch(c) ==
  findAvailableLogPath([endStream(World) EXCEPT !.currentPeriod = wallPeriod],
                       dueToSize[c]) \in Paths

\* The caller invokes write(msg). The promise chain of a rotation that has
\* settled lets the caller run between its microtasks only when the caller
\* itself is a chain of microtasks; both are callers.
Write ==
  /\ Len(sub) < MaxLines
  /\ \E msg \in Msgs : Become(write(World, msg))

\* The flush interval fires: flushIfNeeded().
TimerFlush ==
  /\ flushTimer /\ NoMicro
  /\ buffer # <<>> /\ ~isFlushing
  /\ Become(flushIfNeeded(World))

\* The caller invokes close().
Close ==
  /\ ~isClosed
  /\ Become(close(World))

\* A waitForRotationLock without a retry budget: it waits until it has the lock.
LockRetryForever(c) ==
  /\ pc[c] = "lockwait" /\ NoMicro
  /\ IF canAcquireRotationLock(World)
     THEN Become([World EXCEPT !.rlock = "own", !.gotLock[c] = TRUE,
                               !.pc[c] = "locked"])
     ELSE Become([World EXCEPT !.tries[c] = IF @ < MaxLockRetries THEN @ + 1 ELSE @])

\* waitForRotationLock: the retry timer fires; one more attempt, or give up
\* and rotate without the lock.
LockRetry(c) ==
  /\ pc[c] = "lockwait" /\ NoMicro
  /\ IF canAcquireRotationLock(World)
     THEN Become([World EXCEPT !.rlock = "own", !.gotLock[c] = TRUE,
                               !.pc[c] = "locked"])
     ELSE IF tries[c] >= MaxLockRetries
          THEN Become([World EXCEPT !.pc[c] = "locked"])
          ELSE Become([World EXCEPT !.tries[c] = @ + 1])

\* rotateStream(false, _) of write(): after the lock, flush the buffer to the
\* old stream, or switch at once when the buffer is empty.
RotateFlush ==
  /\ pc["R"] = "locked"
  /\ IF buffer # <<>>
     THEN Become([writeChunk(World, "R") EXCEPT !.pc["R"] = "rflush"])
     ELSE /\ CanSwitch("R")
          /\ Become([switchStream(World, "R") EXCEPT !.pc["R"] = "then"])

\* ... the flush of the rotation was written: switch.
RotateSwitch ==
  /\ pc["R"] = "rflush" /\ "R" \in cb /\ NoMicro
  /\ CanSwitch("R")
  /\ Become([switchStream([World EXCEPT !.cb = @ \ {"R"}], "R")
               EXCEPT !.pc["R"] = "then"])

\* .then(() => processPendingWrites())
RotateThen ==
  /\ pc["R"] = "then"
  /\ Become([processPendingWrites(World) EXCEPT !.pc["R"] = "fin"])

\* .finally(() => { isRotating = false })
RotateFinally ==
  /\ pc["R"] = "fin"
  /\ Become([World EXCEPT !.isRotating = FALSE, !.pc["R"] = "idle"])

\* rotateStream(true, true) inside flushBuffer (c = F or C): switch, then the
\* buffer is written to the new stream.
FlushRotate(c) ==
  /\ c \in {"F", "C"} /\ pc[c] = "locked"
  /\ CanSwitch(c)
  /\ Become([writeChunk(switchStream(World, c), c) EXCEPT !.pc[c] = "fwait"])

\* flushBuffer of flushIfNeeded: the write callback fired.
FlushWritten ==
  /\ pc["F"] = "fwait" /\ "F" \in cb /\ NoMicro
  /\ Become([World EXCEPT !.cb = @ \ {"F"}, !.pc["F"] = "fin"])

\* flushIfNeeded: finally { isFlushing = false }
FlushFinally ==
  /\ pc["F"] = "fin"
  /\ Become([World EXCEPT !.isFlushing = FALSE, !.pc["F"] = "idle"])

\* close(): its flushBuffer returned; stream.end()
CloseWritten ==
  /\ pc["C"] = "fwait" /\ "C" \in cb /\ NoMicro
  /\ Become([endStream([World EXCEPT !.cb = @ \ {"C"}]) EXCEPT !.pc["C"] = "closed"])

\* The operating system appends the oldest queued chunk of stream s to its
\* file; the streams are independent of each other.
Drain(s) ==
  /\ s \in 1..Len(streams) /\ streams[s].queue # <<>>
  /\ LET chunk == Head(streams[s].queue) IN
     Become([World EXCEPT !.streams[s].queue = Tail(@),
                          !.files[streams[s].path] = @ \o chunk.lines,
                          !.hist = @ \o chunk.lines,
                          !.cb = @ \cup {chunk.waiter}])

\* The wall clock enters the next period.
PeriodTick ==
  /\ wallPeriod < MaxPeriod
  /\ Become([World EXCEPT !.wallPeriod = @ + 1])

\* Another process of the same application appends a line to the file this
\* writer has open.
PeerAppend(p) ==
  /\ peerAppends < MaxPeerAppends /\ p = currentFilePath
  /\ Become([World EXCEPT !.peerBytes[p] = @ + PeerLineBytes,
                          !.peerAppends = @ + 1])

\* The peer that holds the rotation lock releases it.
PeerUnlock == rlock = "peer" /\ Become([World EXCEPT !.rlock = "free"])

NextW ==
  \/ Write
  \/ TimerFlush
  \/ Close
  \/ \E c \in Chains : LockRetry(c)
  \/ RotateFlush
  \/ RotateSwitch
  \/ RotateThen
  \/ RotateFinally
  \/ \E c \in Chains : FlushRotate(c)
  \/ FlushWritten
  \/ FlushFinally
  \/ CloseWritten
  \/ \E s \in 1..(MaxLines + 4) : Drain(s)
  \/ PeriodTick
  \/ \E p \in Paths : PeerAppend(p)
  \/ PeerUnlock


(***************************************************************************)
(* SpecQ: the same writer in the runs where no write trips a threshold and *)
(* nothing rotates; what is left is write, the forced flushes (timer and   *)
(* close) and the operating system.                                        *)
(***************************************************************************)
Quiet == seen' = {}

NextQ ==
  \/ Write /\ Quiet
  \/ TimerFlush /\ Quiet
  \/ Close /\ Quiet
  \/ FlushWritten /\ Quiet
  \/ FlushFinally /\ Quiet
  \/ CloseWritten /\ Quiet
  \/ \E s \in 1..(MaxLines + 4) : Drain(s) /\ Quiet
  \/ \E p \in Paths : PeerAppend(p) /\ Quiet

(***************************************************************************)
(* SpecWF: the writer of a process that stays open while a peer holds the  *)
(* rotation lock and never releases it, with every continuation of the     *)
(* writer eventually run.                                                  *)
(***************************************************************************)
InitHeldWriter ==
  \E b \in InitPrimarySizes : \E o \in InitOverflowSizes(b) :
    Is(constructor(b, o, "peer"))

NextHeld ==
  \/ Write
  \/ TimerFlush
  \/ \E c \in Chains : LockRetry(c)
  \/ RotateFlush
  \/ RotateSwitch
  \/ RotateThen
  \/ RotateFinally
  \/ \E c \in Chains : FlushRotate(c)
  \/ FlushWritten
  \/ FlushFinally
  \/ \E s \in 1..(MaxLines + 4) : Drain(s)
  \/ PeriodTick
  \/ \E p \in Paths : PeerAppend(p)

\* The event loop of Node runs every timer that is due (the 20 ms retry of
\* waitForRotationLock), every queued microtask (the continuations after an
\* await, then, finally) and every completed stream write. The caller, the
\* flush interval, the clock and the peers are under no obligation.
FairHeld ==
  /\ \A c \in Chains : WF_vars(LockRetry(c)) /\ WF_vars(FlushRotate(c))
  /\ WF_vars(RotateFlush) /\ WF_vars(RotateSwitch)
  /\ WF_vars(RotateThen) /\ WF_vars(RotateFinally)
  /\ WF_vars(FlushWritten) /\ WF_vars(FlushFinally)
  /\ \A s \in 1..(MaxLines + 4) : WF_vars(Drain(s))

(***************************************************************************)
(* SpecC: coordinator election (registry.ts), one system call at a time.   *)
(***************************************************************************)
\* processes that share the log directory
NumCands == 3
Cands == 1..NumCands

\* Process 1 is the cluster primary (or a process outside any cluster, for
\* which cluster.isPrimary is true as well) or a worker; the others are workers.
InitC ==
  /\ cmarker = NoMarker
  /\ \E k \in {"primary", "worker"} :
       cand = [p \in Cands |-> [kind |-> IF p = 1 THEN k ELSE "worker",
                                pc |-> "idle", reg |-> FALSE, tried |-> FALSE]]
  /\ crel = 0

IdleC ==
  /\ cmarker = NoMarker
  /\ cand = [p \in Cands |-> [kind |-> "worker", pc |-> "idle", reg |-> FALSE,
                              tried |-> FALSE]]
  /\ crel = 0

\* isCoordinator(logDir)
isCoordinator(p) == cand[p].kind = "primary" \/ cand[p].reg

\* The logger of process p is created and calls tryClaimCoordinator: once per
\* process lifetime and directory.
CallClaim(p) ==
  /\ ~cand[p].tried /\ cand[p].pc = "idle"
  /\ cand' = [cand EXCEPT ![p].tried = TRUE, ![p].pc = "check"]
  /\ UNCHANGED <<cmarker, crel, othersC>>

\* tryClaimCoordinator up to the stale test: the early returns, then
\* existsSync(lockPath) && isCoordinatorLockStale(lockPath)
CheckLock(p) ==
  /\ cand[p].pc = "check"
  /\ cand' = [cand EXCEPT ![p].pc =
                IF cand[p].kind = "primary" \/ cand[p].reg THEN "idle"
                ELSE IF cmarker # NoMarker /\ cmarker.stale THEN "rm"
                ELSE "mkdir"]
  /\ UNCHANGED <<cmarker, crel, othersC>>

\* fs.rmSync(lockPath, {recursive, force}) of the lock found stale
RemoveStaleLock(p) ==
  /\ cand[p].pc = "rm"
  /\ cmarker' = NoMarker
  /\ cand' = [cand EXCEPT ![p].pc = "mkdir"]
  /\ UNCHANGED <<crel, othersC>>

\* fs.mkdirSync(lockPath); on success the heartbeat starts and the directory
\* is entered in coordinatorRegistry, on failure the claim returns false
MakeCoordinatorLock(p) ==
  /\ cand[p].pc = "mkdir"
  /\ IF cmarker = NoMarker
     THEN /\ cmarker' = [owner |-> p, stale |-> FALSE]
          /\ cand' = [cand EXCEPT ![p].reg = TRUE, ![p].pc = "idle"]
     ELSE /\ cmarker' = cmarker
          /\ cand' = [cand EXCEPT ![p].pc = "idle"]
  /\ UNCHANGED <<crel, othersC>>

\* The heartbeat timer of a registered process: touchCoordinatorLock sets the
\* mtime of the lock directory that is there.
Heartbeat(p) ==
  /\ cand[p].reg /\ cmarker # NoMarker /\ cmarker.stale
  /\ cmarker' = [cmarker EXCEPT !.stale = FALSE]
  /\ UNCHANGED <<cand, crel, othersC>>

\* COORDINATOR_LOCK_STALE_MS pass without a heartbeat (the holder is blocked,
\* suspended or gone).
LockAges ==
  /\ cmarker # NoMarker /\ ~cmarker.stale
  /\ cmarker' = [cmarker EXCEPT !.stale = TRUE]
  /\ UNCHANGED <<cand, crel, othersC>>

\* releaseCoordinator, from releaseAllCoordinators (cleanup, exit handlers)
releaseCoordinator(p) ==
  /\ cand[p].reg /\ cand[p].pc = "idle"
  /\ cand' = [cand EXCEPT ![p].reg = FALSE]
  /\ cmarker' = NoMarker
  /\ crel' = IF crel = 0 THEN p ELSE crel
  /\ UNCHANGED othersC

NextC ==
  \/ \E p \in Cands : CallClaim(p)
  \/ \E p \in Cands : CheckLock(p)
  \/ \E p \in Cands : RemoveStaleLock(p)
  \/ \E p \in Cands : MakeCoordinatorLock(p)
  \/ \E p \in Cands : Heartbeat(p)
  \/ LockAges
  \/ \E p \in Cands : releaseCoordinator(p)

(***************************************************************************)
(* SpecM: createLogger starts the archiver and the retention scheduler;    *)
(* each run of a sweep is a worker thread of its own.                      *)
(***************************************************************************)
\* minute slots of the model: slots 1 and 3 are minute 5 of an hour, slot 2
\* is 01:00
MaxSlot == 3
\* worker threads of one kind alive at a time
MaxWorkers == 2

\* DEFAULT_ARCHIVE_CRON / DEFAULT_RETENTION_CRON: the slots in which the
\* expression matches ("5 * * * *" for hourly and h, "0 1 * * *" for daily and d)
CronSlots(cadence) ==
  IF cadence \in {"hourly", "h"} THEN {1, 3}
  ELSE IF cadence \in {"daily", "d"} THEN {2}
  ELSE {}

InitM ==
  /\ mcfg \in [coordinator : BOOLEAN, runOnCreation : BOOLEAN,
               archive : {"hourly", "daily"}, retention : {"h", "d", "none"}]
  /\ mcreated = FALSE
  /\ mtask = [arch |-> FALSE, ret |-> FALSE]
  /\ mdue = [arch |-> FALSE, ret |-> FALSE]
  /\ mrun = [arch |-> 0, ret |-> 0]
  /\ mslot = 0

IdleM ==
  /\ mcfg = [coordinator |-> TRUE, runOnCreation |-> TRUE, archive |-> "daily",
             retention |-> "none"]
  /\ mcreated = FALSE
  /\ mtask = [arch |-> FALSE, ret |-> FALSE]
  /\ mdue = [arch |-> FALSE, ret |-> FALSE]
  /\ mrun = [arch |-> 0, ret |-> 0]
  /\ mslot = 0

\* archiver.ts runArchiverWorker: new Worker(archiver-worker)
runArchiverWorker(run) == [run EXCEPT !.arch = @ + 1]

\* retention.ts runRetentionWorker: new Worker(retention-worker) if coordinator
runRetentionWorker(run) ==
  IF mcfg.coordinator THEN [run EXCEPT !.ret = @ + 1] ELSE run

\* createLogger: createArchiverController -> startArchiver, then
\* createRetentionController -> startRetention (when a retention is configured)
CreateLogger ==
  /\ ~mcreated
  /\ mcreated' = TRUE
  /\ mrun' = LET a == IF mcfg.runOnCreation THEN runArchiverWorker(mrun) ELSE mrun
             IN IF mcfg.retention # "none" THEN runRetentionWorker(a) ELSE a
  /\ mtask' = [arch |-> TRUE, ret |-> mcfg.retention # "none"]
  /\ UNCHANGED <<mcfg, mdue, mslot, othersM>>

\* The clock reaches the next minute; the cron tasks whose expression matches
\* it become due.
MinuteStarts ==
  /\ mslot < MaxSlot
  /\ mslot' = mslot + 1
  /\ mdue' = [arch |-> mtask.arch /\ (mslot + 1) \in CronSlots(mcfg.archive),
              ret |-> mtask.ret /\ (mslot + 1) \in CronSlots(mcfg.retention)]
  /\ UNCHANGED <<mcfg, mcreated, mtask, mrun, othersM>>

\* archiver.ts scheduleNextRun: the cron callback
ArchiveTick ==
  /\ mdue.arch /\ mtask.arch /\ mrun.arch < MaxWorkers
  /\ mdue' = [mdue EXCEPT !.arch = FALSE]
  /\ mrun' = IF mcfg.coordinator THEN runArchiverWorker(mrun) ELSE mrun
  /\ UNCHANGED <<mcfg, mcreated, mtask, mslot, othersM>>

\* retention.ts scheduleNextRun: the cron callback
RetentionTick ==
  /\ mdue.ret /\ mtask.ret /\ mrun.ret < MaxWorkers
  /\ mdue' = [mdue EXCEPT !.ret = FALSE]
  /\ mrun' = runRetentionWorker(mrun)
  /\ UNCHANGED <<mcfg, mcreated, mtask, mslot, othersM>>

\* A worker thread finishes its sweep.
ArchiveDone ==
  /\ mrun.arch > 0
  /\ mrun' = [mrun EXCEPT !.arch = @ - 1]
  /\ UNCHANGED <<mcfg, mcreated, mtask, mdue, mslot, othersM>>

RetentionDone ==
  /\ mrun.ret > 0
  /\ mrun' = [mrun EXCEPT !.ret = @ - 1]
  /\ UNCHANGED <<mcfg, mcreated, mtask, mdue, mslot, othersM>>

\* The stop function of a scheduler: task.stop(); a running worker goes on.
StopArchiver ==
  /\ mtask.arch
  /\ mtask' = [mtask EXCEPT !.arch = FALSE]
  /\ UNCHANGED <<mcfg, mcreated, mdue, mrun, mslot, othersM>>

StopRetention ==
  /\ mtask.ret
  /\ mtask' = [mtask EXCEPT !.ret = FALSE]
  /\ UNCHANGED <<mcfg, mcreated, mdue, mrun, mslot, othersM>>

\* logger.runArchiver(): index.ts calls runArchiverWorker of archiver-worker.ts
\* itself, in the calling process.
RunArchiver ==
  /\ mcreated /\ mrun.arch < MaxWorkers
  /\ mrun' = [mrun EXCEPT !.arch = @ + 1]
  /\ UNCHANGED <<mcfg, mcreated, mtask, mdue, mslot, othersM>>

\* logger.runRetention(): index.ts calls runRetentionWorker of
\* retention-worker.ts itself; it returns at once without a retention period.
RunRetention ==
  /\ mcreated /\ mrun.ret < MaxWorkers
  /\ mrun' = IF mcfg.retention # "none" THEN [mrun EXCEPT !.ret = @ + 1] ELSE mrun
  /\ UNCHANGED <<mcfg, mcreated, mtask, mdue, mslot, othersM>>

NextM ==
  \/ CreateLogger
  \/ RunArchiver
  \/ RunRetention
  \/ MinuteStarts
  \/ ArchiveTick
  \/ RetentionTick
  \/ ArchiveDone
  \/ RetentionDone
  \/ StopArchiver
  \/ StopRetention

(***************************************************************************)
(* SpecA: period labels (utilities.ts) and the archive sweep. Instants are *)
(* hours since a Monday 00:00 UTC; local time is UTC + acfg.tz hours.      *)
(***************************************************************************)
\* the first UTC day of the model (a Sunday) and the days it spans
FirstDay == 6
MaxDays == 2
\* the first day of the second month
MonthStart == 7
\* files created by writers, and sweeps started
MaxFiles == 2
MaxSweeps == 2

\* The instants of the model: the first hour, noon and the last hour of each day.
Times == {24 * d + h : d \in FirstDay..(FirstDay + MaxDays - 1), h \in {0, 12, 23}}

\* now.toISOString().slice(0, 10), as a day number
UTCDate(t) == t \div 24
\* now.getHours()
LocalHour(t, tz) == (t + tz) % 24
\* the local calendar day
LocalDay(t, tz) == (t + tz) \div 24
\* dateStr.slice(0, 7), as a month number
MonthOf(d) == IF d < MonthStart THEN 0 ELSE 1

\* getMondayOfWeek: setDate() moves the local date back to the local Monday,
\* toISOString() then prints the UTC date of that instant
getMondayOfWeek(t, tz) == UTCDate(t - 24 * (LocalDay(t, tz) % 7))

NoPeriod == <<>>

\* getFilePeriod(filename, frequency); the date of the name is parsed by
\* new Date(dateStr), midnight UTC of that day
getFilePeriod(f, frequency, tz) ==
  IF f.day < 0 THEN NoPeriod
  ELSE CASE frequency = "hourly" -> <<f.day, IF f.hh >= 0 THEN f.hh ELSE 0>>
         [] frequency = "daily" -> <<f.day>>
         [] frequency = "weekly" -> <<getMondayOfWeek(24 * f.day, tz)>>
         [] frequency = "monthly" -> <<MonthOf(f.day)>>

\* getCurrentPeriod(now, frequency)
getCurrentPeriod(t, frequency, tz) ==
  CASE frequency = "hourly" -> <<UTCDate(t), LocalHour(t, tz)>>
    [] frequency = "daily" -> <<UTCDate(t)>>
    [] frequency = "weekly" -> <<getMondayOfWeek(t, tz)>>
    [] frequency = "monthly" -> <<MonthOf(UTCDate(t))>>

\* FileWriter.getPeriodString: the name of the file a writer opens at t
getPeriodString(t, rotation, tz) ==
  [day |-> UTCDate(t), hh |-> IF rotation = "hourly" THEN LocalHour(t, tz) ELSE -1]

\* the order of Array.prototype.sort on labels of one frequency
LabelBefore(a, b) ==
  \/ a[1] < b[1]
  \/ a[1] = b[1] /\ Len(a) = 2 /\ a[2] < b[2]

\* the files a sweep listed, by period, without the current period and
\* without the names that have no period
filesByPeriod(listed, frequency, cur, tz) ==
  LET eligible == {f \in listed : /\ getFilePeriod(f, frequency, tz) # NoPeriod
                                 /\ getFilePeriod(f, frequency, tz) # cur}
  IN [per \in {getFilePeriod(f, frequency, tz) : f \in eligible} |->
        {f \in eligible : getFilePeriod(f, frequency, tz) = per}]

\* the counter of the first archive name of the period that does not exist:
\* 0 is `<period>-archive.tar.gz`, k is `<period>-archive-<k>.tar.gz`
RECURSIVE archiveCounter(_, _, _)
archiveCounter(period, archives, k) ==
  IF \E a \in archives : a.period = period /\ a.counter = k
  THEN archiveCounter(period, archives, k + 1)
  ELSE k

IdleSweep == [pc |-> "idle", at |-> 0, cur |-> NoPeriod, snap |-> {}, todo |-> {},
              n |-> 0]

InitA ==
  /\ acfg \in {c \in [frequency : {"hourly", "daily", "weekly", "monthly"},
                      rotation : {"daily", "hourly"}, tz : {-1, 0, 1}] :
                 c.frequency = "hourly" => c.rotation = "hourly"}
  /\ anow = 24 * FirstDay
  /\ alogs \in {{}, {[day |-> -1, hh |-> -1, born |-> 0]}}
  /\ aarch = {}
  /\ asweep = IdleSweep
  /\ adone = {}

IdleA ==
  /\ acfg = [frequency |-> "daily", rotation |-> "daily", tz |-> 0]
  /\ anow = 24 * FirstDay
  /\ alogs = {}
  /\ aarch = {}
  /\ asweep = IdleSweep
  /\ adone = {}

\* Time passes.
TimePasses ==
  /\ \E t \in Times : t > anow /\ anow' = t
  /\ UNCHANGED <<acfg, alogs, aarch, asweep, adone, othersA>>

\* A writer of the directory opens the file of the present period.
LogWrite ==
  LET name == getPeriodString(anow, acfg.rotation, acfg.tz) IN
  /\ Cardinality({f \in alogs : f.day >= 0}) + Cardinality(adone) < MaxFiles
  /\ ~\E f \in alogs : f.day = name.day /\ f.hh = name.hh
  /\ alogs' = alogs \cup {[day |-> name.day, hh |-> name.hh, born |-> anow]}
  /\ UNCHANGED <<acfg, anow, aarch, asweep, adone, othersA>>

\* runArchiverWorker up to the loop over the periods: readdir, now,
\* currentPeriod, grouping.
SweepStart ==
  /\ asweep.pc \in {"idle", "done"} /\ asweep.n < MaxSweeps
  /\ LET cur == getCurrentPeriod(anow, acfg.frequency, acfg.tz)
         groups == filesByPeriod(alogs, acfg.frequency, cur, acfg.tz)
     IN asweep' = [pc |-> "loop", at |-> anow, cur |-> cur, snap |-> alogs,
                   todo |-> DOMAIN groups, n |-> asweep.n + 1]
  /\ UNCHANGED <<acfg, anow, alogs, aarch, adone, othersA>>

\* One turn of the loop, for the first period in sort order: pick the archive
\* name, tar the files of the period, unlink them.
SweepPeriod ==
  /\ asweep.pc = "loop" /\ asweep.todo # {}
  /\ LET per == CHOOSE q \in asweep.todo :
                  \A r \in asweep.todo : r = q \/ LabelBefore(q, r)
         members == filesByPeriod(asweep.snap, acfg.frequency, asweep.cur, acfg.tz)[per]
     IN /\ aarch' = aarch \cup {[period |-> per,
                                 counter |-> archiveCounter(per, aarch, 0),
                                 members |-> members]}
        /\ alogs' = alogs \ members
        /\ adone' = adone \cup {<<f, asweep.at, asweep.n>> : f \in members}
        /\ asweep' = [asweep EXCEPT !.todo = @ \ {per}]
  /\ UNCHANGED <<acfg, anow, othersA>>

\* The loop is over: the worker returns.
SweepEnd ==
  /\ asweep.pc = "loop" /\ asweep.todo = {}
  /\ asweep' = [asweep EXCEPT !.pc = "done"]
  /\ UNCHANGED <<acfg, anow, alogs, aarch, adone, othersA>>

NextA ==
  \/ TimePasses
  \/ LogWrite
  \/ SweepStart
  \/ SweepPeriod
  \/ SweepEnd

(***************************************************************************)
(* SpecN: runArchiverWorker, one await at a time, in several worker        *)
(* threads or processes at once. Archive frequency daily, time zone UTC.   *)
(***************************************************************************)
NumSweepers == 2
Sweepers == 1..NumSweepers

\* `now` of the sweeps: noon of the third day; the files are the daily files
\* of the two days before and of that day
SweepNow == 24 * (FirstDay + 2) + 12
DailyFiles == {[day |-> d, hh |-> -1, born |-> 24 * d] : d \in FirstDay..(FirstDay + 2)}
\* an artifact left by an earlier run: `<first day>-archive.tar.gz`
EarlierArtifact ==
  [period |-> <<FirstDay>>, counter |-> 0,
   members |-> {[day |-> FirstDay, hh |-> -1, born |-> 0]}, by |-> 0]

IdleSweeper == [pc |-> "idle", snap |-> {}, todo |-> {}, counter |-> 0]

InitN ==
  /\ nlogs \in {S \in SUBSET DailyFiles :
                  /\ \E f \in S : f.day = FirstDay + 2
                  /\ Cardinality(S) >= 2}
  /\ narch \in {{}, {EarlierArtifact}}
  /\ nsw = [s \in Sweepers |-> IdleSweeper]
  /\ ndel = {}

IdleN ==
  /\ nlogs = {}
  /\ narch = {}
  /\ nsw = [s \in Sweepers |-> IdleSweeper]
  /\ ndel = {}

\* the period the loop is at: the first of Object.keys(filesByPeriod).sort()
firstPeriod(todo) == CHOOSE q \in todo : \A r \in todo : r = q \/ LabelBefore(q, r)

\* the files of the period the sweep is at, as it grouped them
periodFiles(sw) ==
  filesByPeriod(sw.snap, "daily", getCurrentPeriod(SweepNow, "daily", 0), 0)
    [firstPeriod(sw.todo)]

\* the files a sweep has unlinked when tar() has thrown
unlinkedAfterFailureAll(members) == members
unlinkedAfterFailure(members) == {}

\* readdir, now, currentPeriod and the grouping; nothing eligible: return.
Readdir(s) ==
  /\ nsw[s].pc = "idle"
  /\ LET groups == filesByPeriod(nlogs, "daily",
                                 getCurrentPeriod(SweepNow, "daily", 0), 0)
     IN nsw' = [nsw EXCEPT ![s] =
                  IF DOMAIN groups = {} THEN [@ EXCEPT !.pc = "done"]
                  ELSE [pc |-> "pick", snap |-> nlogs, todo |-> DOMAIN groups,
                        counter |-> 0]]
  /\ UNCHANGED <<nlogs, narch, ndel, othersN>>

\* One `await fileExists(archiveFullPath)`: the name is taken, try the next
\* counter; the name is free, go on to tar.
CheckName(s) ==
  /\ nsw[s].pc = "pick"
  /\ nsw' = [nsw EXCEPT ![s] =
               IF \E a \in narch : /\ a.period = firstPeriod(nsw[s].todo)
                                   /\ a.counter = nsw[s].counter
               THEN [@ EXCEPT !.counter = @ + 1]
               ELSE [@ EXCEPT !.pc = "tar"]]
  /\ UNCHANGED <<nlogs, narch, ndel, othersN>>

\* `await tar({ file: archiveFullPath }, periodFiles)`. It can succeed only
\* if every member is still there; it writes to the chosen path whatever is
\* there. When it throws, the path may have been opened already (an
\* incomplete artifact) or not.
Tar(s) ==
  /\ nsw[s].pc = "tar"
  /\ LET per == firstPeriod(nsw[s].todo)
         members == periodFiles(nsw[s])
         others == {a \in narch : ~(a.period = per /\ a.counter = nsw[s].counter)}
         written(m) == [period |-> per, counter |-> nsw[s].counter,
                        members |-> m, by |-> s]
     IN \/ /\ members \subseteq nlogs
           /\ narch' = others \cup {written(members)}
           /\ nsw' = [nsw EXCEPT ![s].pc = "unlink"]
           /\ UNCHANGED <<nlogs, ndel>>
        \/ /\ \E opened \in BOOLEAN :
                narch' = IF opened THEN others \cup {written({})} ELSE narch
           /\ nsw' = [nsw EXCEPT ![s].pc = "tarError"]
           /\ nlogs' = nlogs \ unlinkedAfterFailure(members)
           /\ ndel' = ndel \cup {<<f, s>> : f \in unlinkedAfterFailure(members) \cap nlogs}
  /\ UNCHANGED othersN

\* `await Promise.all(periodFiles.map(unlink))`: every unlink is attempted;
\* if one of them fails the sweep ends in the catch block.
Unlink(s) ==
  /\ nsw[s].pc = "unlink"
  /\ LET members == periodFiles(nsw[s])
         rest == nsw[s].todo \ {firstPeriod(nsw[s].todo)}
     IN /\ nlogs' = nlogs \ members
        /\ ndel' = ndel \cup {<<f, s>> : f \in members \cap nlogs}
        /\ nsw' = [nsw EXCEPT ![s] =
                     IF ~(members \subseteq nlogs) THEN [@ EXCEPT !.pc = "unlinkError"]
                     ELSE IF rest = {} THEN [@ EXCEPT !.pc = "done", !.todo = {}]
                     ELSE [@ EXCEPT !.pc = "pick", !.todo = rest, !.counter = 0]]
  /\ UNCHANGED <<narch, othersN>>

NextN ==
  \/ \E s \in Sweepers : Readdir(s)
  \/ \E s \in Sweepers : CheckName(s)
  \/ \E s \in Sweepers : Tar(s)
  \/ \E s \in Sweepers : Unlink(s)

(***************************************************************************)
(* SpecK: runRetentionWorker (retention-worker.ts) with the parsers of     *)
(* utilities.ts. Instants and time zone as in SpecA.                       *)
(***************************************************************************)
\* the value of the retention period ("1h", "1d")
RetentionValue == 1

\* The parsers return a Date or null: here the set of the instant, or the
\* empty set.
\* parseLogFilename: new Date(year, month - 1, day[, hour]) is the instant at
\* which the local clock shows that day and hour
parseLogFilename(f, tz) ==
  IF f.day < 0 THEN {}
  ELSE IF f.hh >= 0 THEN {24 * f.day + f.hh - tz}
  ELSE {24 * f.day - tz}

\* the day of the model on which month m begins (month 0: a month of 31 days)
MonthFirstDay(m) == IF m = 0 THEN MonthStart - 31 ELSE MonthStart

\* parseArchiveFilename, on the label of the artifact: day and hour, day
\* (daily and weekly artifacts), month, or a name that matches nothing
parseArchiveFilename(label, tz) ==
  CASE label.kind = "hour" -> {24 * label.day + label.hh - tz}
    [] label.kind = "day" -> {24 * label.day - tz}
    [] label.kind = "month" -> {24 * MonthFirstDay(label.month) - tz}
    [] OTHER -> {}

\* getCutoffDate(now, value, unit): setHours / setDate on the local clock
getCutoffDate(t, value, unit) ==
  CASE unit = "h" -> t - value
    [] unit = "d" -> t - 24 * value

\* the artifacts found in the archive directory at the start
ArtifactName(kind, day, hh, month) ==
  [kind |-> kind, day |-> day, hh |-> hh, month |-> month]
OldArtifacts ==
  {ArtifactName("day", FirstDay - 2, -1, -1), ArtifactName("hour", FirstDay - 2, 5, -1),
   ArtifactName("month", -1, -1, 0), ArtifactName("day", FirstDay + 1, -1, -1),
   ArtifactName("month", -1, -1, 1), ArtifactName("other", -1, -1, -1)}

IdleRetention == [pc |-> "idle", at |-> 0, listed |-> {}, failed |-> FALSE, n |-> 0]

\* validateConstraintHierarchy: a retention in hours needs hourly rotation
InitK ==
  /\ kcfg \in {c \in [rotation : {"daily", "hourly"}, unit : {"h", "d"},
                      tz : {-1, 0, 1}] :
                 c.unit = "h" => c.rotation = "hourly"}
  /\ know = 24 * FirstDay
  /\ klogs \in {{}, {[day |-> -1, hh |-> -1, born |-> 0]}}
  /\ karch \in {{}, OldArtifacts}
  /\ ksweep = IdleRetention
  /\ kgone = {}

IdleK ==
  /\ kcfg = [rotation |-> "daily", unit |-> "d", tz |-> 0]
  /\ know = 24 * FirstDay
  /\ klogs = {}
  /\ karch = {}
  /\ ksweep = IdleRetention
  /\ kgone = {}

\* Time passes.
ClockAdvances ==
  /\ \E t \in Times : t > know /\ know' = t
  /\ UNCHANGED <<kcfg, klogs, karch, ksweep, kgone, othersK>>

\* A writer of the directory opens the file of the present period.
WriterOpensFile ==
  LET name == getPeriodString(know, kcfg.rotation, kcfg.tz) IN
  /\ Cardinality({f \in klogs : f.day >= 0}) + Cardinality(kgone) < MaxFiles
  /\ ~\E f \in klogs : f.day = name.day /\ f.hh = name.hh
  /\ klogs' = klogs \cup {[day |-> name.day, hh |-> name.hh, born |-> know]}
  /\ UNCHANGED <<kcfg, know, karch, ksweep, kgone, othersK>>

\* runRetentionWorker up to the first loop: now, cutoffDate, readdir(logDir).
RetentionStart ==
  /\ ksweep.pc \in {"idle", "done"} /\ ksweep.n < MaxSweeps
  /\ ksweep' = [pc |-> "logs", at |-> know, listed |-> klogs, failed |-> FALSE,
                n |-> ksweep.n + 1]
  /\ UNCHANGED <<kcfg, know, klogs, karch, kgone, othersK>>

\* The loop over the log files: a file whose name has a date before the
\* cutoff is unlinked; an unlink that fails is logged and the loop goes on.
RetentionLogs ==
  /\ ksweep.pc = "logs"
  /\ LET cutoff == getCutoffDate(ksweep.at, RetentionValue, kcfg.unit)
         old == {f \in ksweep.listed :
                   \E fileDate \in parseLogFilename(f, kcfg.tz) : fileDate < cutoff}
     IN \E kept \in {{}} \cup {{f} : f \in old} :
          /\ klogs' = klogs \ (old \ kept)
          /\ kgone' = kgone \cup {<<f, ksweep.at, ksweep.n>> : f \in (old \ kept) \cap klogs}
          /\ ksweep' = [ksweep EXCEPT !.pc = "archives",
                                      !.failed = @ \/ kept # {}]
  /\ UNCHANGED <<kcfg, know, karch, othersK>>

\* The loop over the artifacts of the archive directory, then the return.
RetentionArchives ==
  /\ ksweep.pc = "archives"
  /\ LET cutoff == getCutoffDate(ksweep.at, RetentionValue, kcfg.unit)
         old == {a \in karch :
                   \E fileDate \in parseArchiveFilename(a, kcfg.tz) : fileDate < cutoff}
     IN \E kept \in {{}} \cup {{a} : a \in old} :
          /\ karch' = karch \ (old \ kept)
          /\ ksweep' = [ksweep EXCEPT !.pc = "done", !.failed = @ \/ kept # {}]
  /\ UNCHANGED <<kcfg, know, klogs, kgone, othersK>>

NextK ==
  \/ ClockAdvances
  \/ WriterOpensFile
  \/ RetentionStart
  \/ RetentionLogs
  \/ RetentionArchives

(***************************************************************************)
(* SpecP: peers rotate away from full files and a new writer is            *)
(* constructed; every overflow name is made from the clock of its maker.   *)
(***************************************************************************)
\* peer processes that log to the directory
NumPeers == 2
Peers == 1..NumPeers
\* seconds the clock advances
MaxSeconds == 2
\* overflow files the peers create
MaxOverflowFiles == 2

\* The clock starts one second before 01:00 or before 23:00 UTC of day 0: the
\* local midnight of UTC-1 and of UTC+1, an ordinary full hour of UTC.
StartSeconds == {3600 - 1, 23 * 3600 - 1}

\* this.currentPeriod = this.getPeriodString() at instant t
periodAt(t) == getPeriodString(t \div 3600, pcfg.rotation, pcfg.tz)

\* generateOverflowCandidates: the k-th candidate made at t,
\* `${date}~${hh}-${mm}-${ss}` with the date of toISOString (UTC) and the
\* hour, minute and second of getHours, getMinutes, getSeconds (local time)
generateOverflowCandidates(t, tz, k) ==
  <<UTCDate(t \div 3600), LocalHour(t \div 3600, tz), t % 3600, k>>

\* The order of Array.prototype.sort on overflow names.
NameBefore(a, b) ==
  \E i \in 1..4 : a[i] < b[i] /\ \A j \in 1..(i - 1) : a[j] = b[j]

\* getOverflowPattern: the overflow names of a period
getOverflowPattern(period, name) ==
  name[1] = period.day /\ (period.hh >= 0 => name[2] = period.hh)

MainPath(period) == [main |-> TRUE, period |-> period, name |-> <<>>]
OverflowPath(name) == [main |-> FALSE, period |-> [day |-> -1, hh |-> -1], name |-> name]

\* getOverflowLogPathSync: the first candidate that does not exist
getOverflowLogPathByName(entries, t, tz) ==
  LET names == {f.name : f \in entries}
      k == CHOOSE i \in 0..Cardinality(entries) :
             /\ generateOverflowCandidates(t, tz, i) \notin names
             /\ \A j \in 0..(i - 1) : generateOverflowCandidates(t, tz, j) \in names
  IN generateOverflowCandidates(t, tz, k)

\* findAvailableLogPath at instant t: the main log unless full or excluded,
\* else the overflow file of the period with spare capacity whose name sorts
\* last, else a new name.
findAvailableLogPathByName(entries, fullMain, period, current, excludeCurrentFile, t, tz) ==
  LET mainLogPath == MainPath(period)
      overflowFiles ==
        {f \in entries : /\ getOverflowPattern(period, f.name)
                       /\ ~(excludeCurrentFile /\ OverflowPath(f.name) = current)
                       /\ ~f.full}
  IN IF ~(excludeCurrentFile /\ current = mainLogPath) /\ period \notin fullMain
     THEN mainLogPath
     ELSE IF overflowFiles # {}
     THEN OverflowPath((CHOOSE f \in overflowFiles :
                          \A g \in overflowFiles : g = f \/ NameBefore(g.name, f.name)).name)
     ELSE OverflowPath(getOverflowLogPathByName(entries, t, tz))

\* openStream: createWriteStream with flags "a" creates the file if it is not
\* there and leaves it as it is otherwise.
createIfAbsent(entries, path, t) ==
  IF path.main \/ path.name \in {f.name : f \in entries}
  THEN entries
  ELSE entries \cup {[name |-> path.name, named |-> t, made |-> t, full |-> FALSE]}

NotBuilt ==
  [built |-> FALSE, chose |-> MainPath([day |-> -1, hh |-> -1]), dir |-> {},
   period |-> [day |-> -1, hh |-> -1], primaryFull |-> FALSE]

\* The peers have the primary file of the period open; it is full.
InitP ==
  /\ pcfg \in [rotation : {"daily", "hourly"}, tz : {-1, 0, 1}]
  /\ pnow \in StartSeconds
  /\ pfiles = {}
  /\ pfull = {periodAt(pnow)}
  /\ ppeer = [p \in Peers |-> [pc |-> "writing", period |-> periodAt(pnow),
                               file |-> MainPath(periodAt(pnow)),
                               target |-> MainPath(periodAt(pnow)),
                               named |-> pnow]]
  /\ pwr = NotBuilt

IdleP ==
  /\ pcfg = [rotation |-> "daily", tz |-> 0]
  /\ pnow = 3600 - 1
  /\ pfiles = {}
  /\ pfull = {}
  /\ ppeer = [p \in Peers |-> [pc |-> "writing", period |-> [day |-> 0, hh |-> -1],
                               file |-> MainPath([day |-> 0, hh |-> -1]),
                               target |-> MainPath([day |-> 0, hh |-> -1]),
                               named |-> 3600 - 1]]
  /\ pwr = NotBuilt

\* The file peer p has open has reached maxLogSizeBytes.
PeerFileFull(p) ==
  IF ppeer[p].file.main THEN ppeer[p].period \in pfull
  ELSE \E f \in pfiles : f.name = ppeer[p].file.name /\ f.full

Second ==
  /\ (pnow + 1) % 3600 < MaxSeconds
  /\ pnow' = pnow + 1
  /\ UNCHANGED <<pcfg, pfiles, pfull, ppeer, pwr, othersP>>

\* The lines of peer p fill the file it has open.
PeerFillsFile(p) ==
  /\ ppeer[p].pc = "writing" /\ ~PeerFileFull(p)
  /\ IF ppeer[p].file.main
     THEN /\ pfull' = pfull \cup {ppeer[p].period}
          /\ pfiles' = pfiles
     ELSE /\ pfiles' = {IF f.name = ppeer[p].file.name THEN [f EXCEPT !.full = TRUE] ELSE f
                        : f \in pfiles}
          /\ pfull' = pfull
  /\ UNCHANGED <<pcfg, pnow, ppeer, pwr, othersP>>

\* write() of peer p finds the period changed or the size reached;
\* rotateStream: currentPeriod = getPeriodString(),
\* newPath = findAvailableLogPath(dueToSize).
PeerRotates(p) ==
  /\ ppeer[p].pc = "writing"
  /\ PeerFileFull(p) \/ ppeer[p].period # periodAt(pnow)
  /\ ppeer' = [ppeer EXCEPT
       ![p].pc = "found",
       ![p].period = periodAt(pnow),
       ![p].named = pnow,
       ![p].target = findAvailableLogPathByName(pfiles, pfull, periodAt(pnow),
                       ppeer[p].file, PeerFileFull(p), pnow, pcfg.tz)]
  /\ UNCHANGED <<pcfg, pnow, pfiles, pfull, pwr, othersP>>

\* rotateStream of peer p: openStream(newPath); the stream creates the file.
PeerOpens(p) ==
  /\ ppeer[p].pc = "found"
  /\ Cardinality(pfiles) < MaxOverflowFiles
  /\ pfiles' = {IF f.name = ppeer[p].target.name /\ f.made = pnow
                THEN [f EXCEPT !.named = ppeer[p].named] ELSE f
                : f \in createIfAbsent(pfiles, ppeer[p].target, pnow)}
  /\ ppeer' = [ppeer EXCEPT ![p].pc = "writing", ![p].file = ppeer[p].target]
  /\ UNCHANGED <<pcfg, pnow, pfull, pwr, othersP>>

\* new FileWriter(): currentPeriod = getPeriodString(),
\* openStream(findAvailableLogPath()).
Construct ==
  /\ ~pwr.built
  /\ LET chose == findAvailableLogPathByName(pfiles, pfull, periodAt(pnow),
                    NotBuilt.chose, FALSE, pnow, pcfg.tz)
     IN /\ pwr' = [built |-> TRUE, chose |-> chose, dir |-> pfiles,
                   period |-> periodAt(pnow),
                   primaryFull |-> periodAt(pnow) \in pfull]
        /\ pfiles' = createIfAbsent(pfiles, chose, pnow)
  /\ UNCHANGED <<pcfg, pnow, pfull, ppeer, othersP>>

NextP ==
  \/ Second
  \/ \E p \in Peers : PeerFillsFile(p)
  \/ \E p \in Peers : PeerRotates(p)
  \/ \E p \in Peers : PeerOpens(p)
  \/ Construct

(***************************************************************************)
(* SpecE: the constructor with a directory that cannot be created, and the *)
(* error handler that openStream attaches to every stream.                 *)
(***************************************************************************)
\* write() calls made by the caller
MaxCalls == 3
\* rotations of the writer (the files are 0..MaxRotations)
MaxRotations == 1
\* openStream: `if (errorCounter < 3)`
RetryBudget == 3

\* openStream(filepath, errorCounter) on writer w
openStreamE(w, filepath, errorCounter) ==
  IF ~w.isEnabled THEN w
  ELSE [w EXCEPT !.streams = Append(@, [path |-> filepath, counter |-> errorCounter,
                                        state |-> "open", handler |-> TRUE]),
                 !.stream = Len(w.streams) + 1]

\* the fields before the constructor body runs
Fresh ==
  [isEnabled |-> TRUE, stream |-> 0, streams |-> <<>>, timers |-> {}, buffer |-> 0,
   disk |-> [f \in 0..MaxRotations |-> 0], flushTimer |-> FALSE, calls |-> 0,
   refused |-> 0, rotations |-> 0, dirFailed |-> FALSE, uncaught |-> FALSE]

\* A constructor that goes on after the failure of mkdirSync.
constructorGoesOn(mkdirOk) ==
  LET w == IF mkdirOk THEN Fresh
           ELSE [Fresh EXCEPT !.isEnabled = FALSE, !.dirFailed = TRUE]
  IN [openStreamE(w, 0, 0) EXCEPT !.flushTimer = TRUE]

\* constructor: mkdirSync in try/catch; on failure isEnabled = false and
\* return; else openStream(findAvailableLogPath()) and setInterval
constructorE(mkdirOk) ==
  IF ~mkdirOk THEN [Fresh EXCEPT !.isEnabled = FALSE, !.dirFailed = TRUE]
  ELSE [openStreamE(Fresh, 0, 0) EXCEPT !.flushTimer = TRUE]

\* A write() that accepts lines whatever the state of the writer.
acceptsAlways(w) == TRUE

\* write(): `if (!this.isEnabled || !this.stream) return`
accepts(w) == w.isEnabled /\ w.stream # 0

InitE == \E mkdirOk \in BOOLEAN : ew = constructorE(mkdirOk)

IdleE == ew = constructorE(TRUE)

\* The caller invokes write(): the guard, then the line is buffered.
WriteE ==
  /\ ew.calls < MaxCalls
  /\ ew' = IF accepts(ew)
           THEN [ew EXCEPT !.calls = @ + 1, !.buffer = @ + 1]
           ELSE [ew EXCEPT !.calls = @ + 1, !.refused = @ + 1]
  /\ UNCHANGED othersE

\* The flush interval fires with lines in the buffer: flushBuffer empties the
\* buffer; the chunk reaches the disk if the stream is there and takes it,
\* else the rejection is caught by flushIfNeeded.
FlushE ==
  /\ ew.flushTimer /\ ew.buffer > 0
  /\ ew' = IF ew.stream # 0 /\ ew.isEnabled /\ ew.streams[ew.stream].state = "open"
           THEN [ew EXCEPT !.buffer = 0,
                           !.disk[ew.streams[ew.stream].path] = @ + ew.buffer]
           ELSE [ew EXCEPT !.buffer = 0]
  /\ UNCHANGED othersE

\* Stream s emits "error": the handler of openStream sets a timeout for the
\* reopen while errorCounter < 3, else disables the writer.
StreamError(s) ==
  /\ ew.streams[s].state \in {"open", "ended"}
  /\ LET w == [ew EXCEPT !.streams[s].state = "errored"]
     IN ew' = IF ~ew.streams[s].handler THEN [w EXCEPT !.uncaught = TRUE]
              ELSE IF ew.streams[s].counter < RetryBudget
              THEN [w EXCEPT !.timers = @ \cup {s}]
              ELSE [w EXCEPT !.isEnabled = FALSE, !.stream = 0]
  /\ UNCHANGED othersE

\* The timeout set by the handler of stream s fires:
\* openStream(filepath, errorCounter + 1).
ReopenTimeout(s) ==
  /\ s \in ew.timers
  /\ ew' = openStreamE([ew EXCEPT !.timers = @ \ {s}],
                       ew.streams[s].path, ew.streams[s].counter + 1)
  /\ UNCHANGED othersE

\* rotateStream: this.stream?.end(), openStream(newPath).
RotateE ==
  /\ ew.isEnabled /\ ew.stream # 0
  /\ ew.rotations < MaxRotations
  /\ ew' = openStreamE(
             [ew EXCEPT !.rotations = @ + 1,
                        !.streams[ew.stream].state =
                          IF @ = "open" THEN "ended" ELSE @],
             ew.rotations + 1, 0)
  /\ UNCHANGED othersE

NextE ==
  \/ WriteE
  \/ FlushE
  \/ \E s \in 1..Len(ew.streams) : StreamError(s)
  \/ \E s \in 1..Len(ew.streams) : ReopenTimeout(s)
  \/ RotateE

(***************************************************************************)
(* SpecG: loggers are created in one process; each createLogger with file  *)
(* output calls getOrCreateFileWriter with its logDir and file options.    *)
(***************************************************************************)
\* createLogger calls of the process
MaxRegistrations == 3

\* The logDir strings the callers pass, and the directory the file system
\* resolves each to (fs resolves a relative path against the working
\* directory): two spellings of one directory, and another directory.
LogDirs == {"logs", "./logs", "data"}
Resolve(logDir) == IF logDir = "data" THEN "/app/data" ELSE "/app/logs"

\* FileWriterOptions without logDir; intervals and limits in units of the
\* smallest value used.
FileOptions ==
  [rotationFrequency : {"daily", "hourly"}, flushInterval : 1..2,
   maxBufferLines : 1..2, maxBufferKilobytes : 1..2, maxLogSizeMegabytes : 1..2]

\* FileWriter.updateOptions
updateOptions(this, opts) ==
  [rotationFrequency |->
     IF opts.rotationFrequency = "hourly" /\ this.rotationFrequency = "daily"
     THEN "hourly" ELSE this.rotationFrequency,
   flushInterval |->
     IF opts.flushInterval < this.flushInterval
     THEN opts.flushInterval ELSE this.flushInterval,
   maxBufferLines |->
     IF opts.maxBufferLines < this.maxBufferLines
     THEN opts.maxBufferLines ELSE this.maxBufferLines,
   maxBufferKilobytes |->
     IF opts.maxBufferKilobytes < this.maxBufferKilobytes
     THEN opts.maxBufferKilobytes ELSE this.maxBufferKilobytes,
   maxLogSizeMegabytes |->
     IF opts.maxLogSizeMegabytes < this.maxLogSizeMegabytes
     THEN opts.maxLogSizeMegabytes ELSE this.maxLogSizeMegabytes]

InitG ==
  /\ greg = [k \in LogDirs |-> 0]
  /\ gwriters = <<>>
  /\ gcalls = {}
  /\ gret = 0

IdleG ==
  /\ greg = [k \in LogDirs |-> 0]
  /\ gwriters = <<>>
  /\ gcalls = {}
  /\ gret = 0

\* getOrCreateFileWriter({ logDir, ...file }): key = opts.logDir; an existing
\* entry is updated and returned, else a FileWriter is constructed and set.
getOrCreateFileWriter(logDir, opts) ==
  /\ Len(gwriters) < MaxRegistrations /\ Cardinality(gcalls) < MaxRegistrations
  /\ gcalls' = gcalls \cup {<<Resolve(logDir), opts>>}
  /\ IF greg[logDir] # 0
     THEN /\ gwriters' = [gwriters EXCEPT
                            ![greg[logDir]].opts = updateOptions(@, opts)]
          /\ greg' = greg
          /\ gret' = greg[logDir]
     ELSE /\ gwriters' = Append(gwriters, [dir |-> Resolve(logDir), opts |-> opts])
          /\ greg' = [greg EXCEPT ![logDir] = Len(gwriters) + 1]
          /\ gret' = Len(gwriters) + 1
  /\ UNCHANGED othersG

NextG == \E logDir \in LogDirs, opts \in FileOptions : getOrCreateFileWriter(logDir, opts)

(***************************************************************************)
(* SpecV: validateLoggerOptions and validateConstraintHierarchy.           *)
(***************************************************************************)
\* retention values `<n>` of the model: around a day, a week and a month
RetentionValues == {0, 1, 2, 7, 24, 30, 31, 32}
\* a retention period, undefined, or a string that is not `<number><unit>`
NoRetentionPeriod == [value |-> 0, unit |-> "undefined"]
Malformed == [value |-> 0, unit |-> "malformed"]
RetentionPeriods ==
  [value : RetentionValues, unit : {"h", "d", "w", "m", "y"}]
    \cup {NoRetentionPeriod, Malformed}

\* retentionToHours
retentionToHours(r) ==
  CASE r.unit = "h" -> r.value
    [] r.unit = "d" -> r.value * 24
    [] r.unit = "w" -> r.value * 24 * 7
    [] r.unit = "m" -> r.value * 24 * 31
    [] r.unit = "y" -> r.value * 24 * 366

\* frequencyToHours
frequencyToHours(frequency) ==
  CASE frequency = "hourly" -> 1
    [] frequency = "daily" -> 24
    [] frequency = "weekly" -> 24 * 7
    [] frequency = "monthly" -> 24 * 31

\* A validateConstraintHierarchy without the check of the retention unit.
validateHoursOnly(rotation, archive, retention, archiveDisabled) ==
  IF ~archiveDisabled /\ frequencyToHours(archive) < frequencyToHours(rotation)
  THEN "thrown"
  ELSE IF retention = NoRetentionPeriod THEN "ok"
  ELSE IF ~archiveDisabled /\ retentionToHours(retention) < frequencyToHours(archive)
  THEN "thrown"
  ELSE IF retentionToHours(retention) < frequencyToHours(rotation) THEN "thrown"
  ELSE "ok"

\* validateConstraintHierarchy: the checks in the order of the code; the
\* first that fails throws
validateConstraintHierarchy(rotation, archive, retention, archiveDisabled) ==
  IF ~archiveDisabled /\ frequencyToHours(archive) < frequencyToHours(rotation)
  THEN "thrown"
  ELSE IF retention = NoRetentionPeriod THEN "ok"
  ELSE IF ~archiveDisabled /\ retentionToHours(retention) < frequencyToHours(archive)
  THEN "thrown"
  ELSE IF retentionToHours(retention) < frequencyToHours(rotation) THEN "thrown"
  ELSE IF retention.unit = "h" /\ rotation = "daily" THEN "thrown"
  ELSE "ok"

\* validateLoggerOptions, from the resolved options on: the format of the
\* retention period, the output that is forced on, archiving and retention
\* switched off without file output, the constraint hierarchy
validateLoggerOptions(o) ==
  LET fileEnabled == o.fileEnabled \/ ~o.consoleEnabled
      resolved == [o EXCEPT !.fileEnabled = fileEnabled,
                            !.archiveDisabled = @ \/ ~fileEnabled,
                            !.retention = IF fileEnabled THEN @ ELSE NoRetentionPeriod]
  IN IF o.retention = Malformed THEN [status |-> "thrown", resolved |-> o]
     ELSE [status |-> validateConstraintHierarchy(resolved.rotation, resolved.archive,
                        resolved.retention, resolved.archiveDisabled),
           resolved |-> resolved]

LoggerOptions ==
  [rotation : {"hourly", "daily"}, archive : {"hourly", "daily", "weekly", "monthly"},
   archiveDisabled : BOOLEAN, retention : RetentionPeriods,
   fileEnabled : BOOLEAN, consoleEnabled : BOOLEAN]

NotCalled == [status |-> "none", resolved |-> [rotation |-> "daily", archive |-> "monthly",
                archiveDisabled |-> FALSE, retention |-> NoRetentionPeriod,
                fileEnabled |-> TRUE, consoleEnabled |-> TRUE]]

InitV == vopts \in LoggerOptions /\ vout = NotCalled

IdleV == vopts = NotCalled.resolved /\ vout = NotCalled

\* createLogger(loggerOptions): validateLoggerOptions throws or returns
CreateLoggerV ==
  /\ vout.status = "none"
  /\ vout' = validateLoggerOptions(vopts)
  /\ UNCHANGED <<vopts, othersV>>

NextV == CreateLoggerV

(***************************************************************************)
(* SpecT: a writer names its file at an instant, an archive sweep names    *)
(* the artifact of the file, the retention sweep parses both names.        *)
(* Instants and time zone as in SpecA.                                     *)
(***************************************************************************)
\* the counters an artifact name can carry (0: no `-<counter>` suffix)
MaxCounter == 1

\* the instants of SpecT: every hour of the days of the model
Hours == (24 * FirstDay)..(24 * (FirstDay + MaxDays) - 1)

\* the order of the frequencies (frequencyToHours)
AllowedT(c) == frequencyToHours(c.frequency) >= frequencyToHours(c.rotation)

\* getArchiveFilename(period), with the counter of the sweep's fileExists
\* loop: `<period>-archive.tar.gz`, `<period>-archive-<counter>.tar.gz`. The
\* shape of the period (day and hour, day, month) is the one its frequency
\* gives it.
getArchiveFilename(period, frequency, counter) ==
  [kind |-> CASE frequency = "hourly" -> "hour"
              [] frequency = "monthly" -> "month"
              [] OTHER -> "day",
   day |-> IF frequency = "monthly" THEN -1 ELSE period[1],
   hh |-> IF frequency = "hourly" THEN period[2] ELSE -1,
   month |-> IF frequency = "monthly" THEN period[1] ELSE -1,
   counter |-> counter]

NotParsed == [log |-> {-1}, arch |-> {-1}]

InitT ==
  /\ tcfg \in {c \in [rotation : {"daily", "hourly"},
                      frequency : {"hourly", "daily", "weekly", "monthly"},
                      tz : {-1, 0, 1}] : AllowedT(c)}
  /\ tnow \in Hours
  /\ tfile = <<>> /\ tart = <<>>
  /\ tparsed = NotParsed

IdleT ==
  /\ tcfg = [rotation |-> "daily", frequency |-> "monthly", tz |-> 0]
  /\ tnow = 24 * FirstDay
  /\ tfile = <<>> /\ tart = <<>>
  /\ tparsed = NotParsed

\* A writer opens the file of the present period: `<getPeriodString()>.log`.
WriterNamesFile ==
  /\ tfile = <<>>
  /\ tfile' = getPeriodString(tnow, tcfg.rotation, tcfg.tz)
  /\ UNCHANGED <<tcfg, tnow, tart, tparsed, othersT>>

\* A sweep archives the file: getFilePeriod, getArchiveFilename, and the
\* counter when the name is taken.
SweepNamesArtifact ==
  /\ tfile # <<>> /\ tart = <<>>
  /\ \E counter \in 0..MaxCounter :
       tart' = getArchiveFilename(getFilePeriod(tfile, tcfg.frequency, tcfg.tz),
                                  tcfg.frequency, counter)
  /\ UNCHANGED <<tcfg, tnow, tfile, tparsed, othersT>>

\* The retention sweep parses the names.
RetentionParses ==
  /\ tart # <<>> /\ tparsed = NotParsed
  /\ tparsed' = [log |-> parseLogFilename(tfile, tcfg.tz),
                 arch |-> parseArchiveFilename(tart, tcfg.tz)]
  /\ UNCHANGED <<tcfg, tnow, tfile, tart, othersT>>

NextT ==
  \/ WriterNamesFile
  \/ SweepNamesArtifact
  \/ RetentionParses

(***************************************************************************)
(* SpecX: the process claims the coordinator role of directories, peers    *)
(* take stale markers over, and the process ends.                          *)
(***************************************************************************)
\* the log directories of the process
NumDirs == 2
Dirs == 1..NumDirs

\* the ways a process ends for which registerCleanupHandlers registers a
\* handler, and a way for which no handler runs
Handled == {"exit", "SIGINT", "SIGTERM", "uncaughtException"}
Ends == Handled \cup {"SIGKILL"}

NoLock == [owner |-> 0, stale |-> FALSE]

InitX ==
  /\ \E k \in {"primary", "worker"} :
       xp = [kind |-> k, ended |-> "alive", registry |-> {}, timers |-> {},
             atEnd |-> {}, held |-> {}]
  /\ xmarker = [d \in Dirs |-> NoLock]

IdleX ==
  /\ xp = [kind |-> "worker", ended |-> "alive", registry |-> {}, timers |-> {},
           atEnd |-> {}, held |-> {}]
  /\ xmarker = [d \in Dirs |-> NoLock]

\* tryClaimCoordinator(logDir) of a cluster worker that is not coordinator of
\* the directory: a stale marker is removed, mkdirSync makes the marker if
\* there is none, and after meta.json is written the heartbeat is set and
\* the directory entered in coordinatorRegistry; when the write throws the
\* claim returns false and the marker stays.
tryClaimCoordinator(d) ==
  /\ xp.ended = "alive" /\ xp.kind = "worker" /\ d \notin xp.registry
  /\ LET free == xmarker[d].owner = 0 \/ xmarker[d].stale IN
     IF free
     THEN /\ xmarker' = [xmarker EXCEPT ![d] = [owner |-> 1, stale |-> FALSE]]
          /\ \E metaWritten \in BOOLEAN :
               xp' = IF metaWritten
                     THEN [xp EXCEPT !.registry = @ \cup {d}, !.timers = @ \cup {d}]
                     ELSE xp
     ELSE UNCHANGED <<xp, xmarker>>
  /\ UNCHANGED othersX

\* The heartbeat of a directory fires: touchCoordinatorLock sets the mtime
\* of the marker that is there.
HeartbeatX(d) ==
  /\ xp.ended = "alive" /\ d \in xp.timers
  /\ xmarker[d].owner # 0 /\ xmarker[d].stale
  /\ xmarker' = [xmarker EXCEPT ![d].stale = FALSE]
  /\ UNCHANGED <<xp, othersX>>

\* COORDINATOR_LOCK_STALE_MS pass without a heartbeat.
LockAgesX(d) ==
  /\ xmarker[d].owner # 0 /\ ~xmarker[d].stale
  /\ xmarker' = [xmarker EXCEPT ![d].stale = TRUE]
  /\ UNCHANGED <<xp, othersX>>

\* A peer claims the directory: it removes a stale marker and makes its own.
PeerClaims(d) ==
  /\ xmarker[d].owner = 0 \/ xmarker[d].stale
  /\ xmarker' = [xmarker EXCEPT ![d] = [owner |-> 2, stale |-> FALSE]]
  /\ UNCHANGED <<xp, othersX>>

\* A releaseAllCoordinators that stops after the first key.
releaseFirstCoordinator(p, locks) ==
  IF p.registry = {} THEN [p |-> p, marker |-> locks]
  ELSE LET d == CHOOSE e \in p.registry : \A f \in p.registry : e <= f IN
       [p |-> [p EXCEPT !.registry = @ \ {d}, !.timers = @ \ {d}],
        marker |-> [locks EXCEPT ![d] = NoLock]]

\* releaseAllCoordinators: releaseCoordinator for every key of
\* coordinatorRegistry: clearInterval, delete, rmSync of the lock path
releaseAllCoordinators(p, locks) ==
  [p |-> [p EXCEPT !.registry = {}, !.timers = @ \ p.registry],
   marker |-> [d \in Dirs |-> IF d \in p.registry THEN NoLock ELSE locks[d]]]

\* cleanupLogRegistry(), as far as the coordinator role goes
cleanupLogRegistry ==
  /\ xp.ended = "alive" /\ xp.registry # {}
  /\ LET r == releaseAllCoordinators(xp, xmarker) IN
       xp' = r.p /\ xmarker' = r.marker
  /\ UNCHANGED othersX

\* The process ends: the handler registered for the event runs cleanup (and
\* process.exit, whose "exit" event runs cleanup again); SIGKILL runs nothing.
ProcessEnds(how) ==
  /\ xp.ended = "alive"
  /\ LET r == IF how \in Handled
              THEN LET once == releaseAllCoordinators(xp, xmarker)
                   IN IF how = "exit" THEN once
                      ELSE releaseAllCoordinators(once.p, once.marker)
              ELSE [p |-> xp, marker |-> xmarker]
     IN /\ xp' = [r.p EXCEPT !.ended = how, !.atEnd = xp.registry,
                             !.held = {d \in xp.registry : xmarker[d].owner = 1}]
        /\ xmarker' = r.marker
  /\ UNCHANGED othersX

NextX ==
  \/ \E d \in Dirs : tryClaimCoordinator(d)
  \/ \E d \in Dirs : HeartbeatX(d)
  \/ \E d \in Dirs : LockAgesX(d)
  \/ \E d \in Dirs : PeerClaims(d)
  \/ cleanupLogRegistry
  \/ \E how \in Ends : ProcessEnds(how)

(***************************************************************************)
(* SpecS: createArchiverController and createRetentionController; the cron *)
(* tasks of startArchiver and startRetention; the sweeps they launch.      *)
(***************************************************************************)
\* loggers of the process on the directory, cron tasks scheduled in a run,
\* worker threads of a kind in flight
NumLoggers == 2
MaxTasks == 4
MaxInFlight == 1
Loggers == 1..NumLoggers
Kinds == {"arch", "ret"}

\* archive.frequency and retention.period of a logger
ControllerOptions ==
  [arch : {"hourly", "daily"}, ret : {"none", "7d", "30d"}, runOnCreation : BOOLEAN]
\* the loggers of the process have the same archive.runOnCreation
SameRunOnCreation(cfg) == \A c, d \in Loggers : cfg[c].runOnCreation = cfg[d].runOnCreation

\* ARCHIVE_FREQUENCY_PRIORITY
ARCHIVE_FREQUENCY_PRIORITY(f) == IF f = "hourly" THEN 1 ELSE 2

\* getStricterArchiveFrequency(a, b)
getStricterArchiveFrequency(a, b) ==
  IF ARCHIVE_FREQUENCY_PRIORITY(a) < ARCHIVE_FREQUENCY_PRIORITY(b) THEN a ELSE b

NoEntry == [task |-> 0, options |-> "none"]

Unstarted(cfg, coordinator) ==
  [cfg |-> cfg, coordinator |-> coordinator,
   created |-> [c \in Loggers |-> FALSE],
   isRunning |-> [k \in Kinds |-> [c \in Loggers |-> FALSE]],
   registry |-> [k \in Kinds |-> NoEntry],
   tasks |-> <<>>,
   inFlight |-> [k \in Kinds |-> 0]]

InitS ==
  /\ \E cfg \in {f \in [Loggers -> ControllerOptions] : SameRunOnCreation(f)},
        coordinator \in BOOLEAN :
       sc = Unstarted(cfg, coordinator)
  /\ sevent = <<"none", "none">>
  /\ sstopped = [k \in Kinds |-> FALSE]
  /\ sticked = [k \in Kinds |-> FALSE]

IdleS ==
  /\ sc = Unstarted([c \in Loggers |-> [arch |-> "daily", ret |-> "none",
                                         runOnCreation |-> TRUE]], TRUE)
  /\ sevent = <<"none", "none">>
  /\ sstopped = [k \in Kinds |-> FALSE]
  /\ sticked = [k \in Kinds |-> FALSE]

\* new Worker(...): a sweep is in flight
launch(st, k) == [st EXCEPT !.inFlight[k] = @ + 1]

\* startArchiver(opts) / startRetention(opts): the sweep on creation (the
\* archiver's when runOnCreation, the retention's when isCoordinator), then
\* scheduleNextRun: cron.schedule; the registry entry is set by the caller
startScheduler(st, k, c) ==
  LET first == IF k = "arch"
               THEN IF st.cfg[c].runOnCreation THEN launch(st, k) ELSE st
               ELSE IF st.coordinator THEN launch(st, k) ELSE st
      task == [kind |-> k, active |-> TRUE]
  IN [first EXCEPT !.tasks = Append(@, task),
                   !.registry[k] = [task |-> Len(st.tasks) + 1,
                                    options |-> st.cfg[c][k]]]

\* task.stop() of the cron task of a registry entry
stopTask(st, entry) == [st EXCEPT !.tasks[entry.task].active = FALSE]

\* Whether start() restarts the scheduler of the entry: the new frequency is
\* stricter, or the new retention period is the one getShorterRetention
\* returns (shorter: the outcome of that call), and they differ.
restarts(k, new, existing, shorter) ==
  /\ new # existing
  /\ IF k = "arch" THEN getStricterArchiveFrequency(new, existing) = new
     ELSE shorter

\* A start() that sets the new registry entry without stopping the task of
\* the entry it replaces.
startOverExisting(st, k, c, shorter) ==
  IF st.isRunning[k][c] THEN st
  ELSE IF k = "ret" /\ st.cfg[c].ret = "none" THEN st
  ELSE LET existing == st.registry[k]
           started ==
             IF existing.task = 0 THEN startScheduler(st, k, c)
             ELSE IF restarts(k, st.cfg[c][k], existing.options, shorter)
             THEN startScheduler(st, k, c)
             ELSE st
       IN [started EXCEPT !.isRunning[k][c] = TRUE]

\* start() of the controller of kind k of logger c
start(st, k, c, shorter) ==
  IF st.isRunning[k][c] THEN st
  ELSE IF k = "ret" /\ st.cfg[c].ret = "none" THEN st
  ELSE LET existing == st.registry[k]
           started ==
             IF existing.task = 0 THEN startScheduler(st, k, c)
             ELSE IF restarts(k, st.cfg[c][k], existing.options, shorter)
             THEN startScheduler(stopTask(st, existing), k, c)
             ELSE st
       IN [started EXCEPT !.isRunning[k][c] = TRUE]

\* stop() of the controller of kind k of logger c
stop(st, k, c) ==
  IF ~st.isRunning[k][c] THEN st
  ELSE LET existing == st.registry[k]
           stopped == IF existing.task # 0
                      THEN [stopTask(st, existing) EXCEPT !.registry[k] = NoEntry]
                      ELSE st
       IN [stopped EXCEPT !.isRunning[k][c] = FALSE]

\* room for the tasks and the sweeps a handler may start
RoomS(n) ==
  /\ Len(sc.tasks) + n <= MaxTasks
  /\ \A k \in Kinds : sc.inFlight[k] < MaxInFlight

\* createLogger: createArchiverController and createRetentionController,
\* the second with autoStart only when a retention period is set
CreateLoggerS(c) ==
  /\ ~sc.created[c] /\ RoomS(2)
  /\ \E shorter \in BOOLEAN :
       sc' = LET made == [sc EXCEPT !.created[c] = TRUE]
                 a == start(made, "arch", c, shorter)
             IN IF sc.cfg[c].ret # "none" THEN start(a, "ret", c, shorter) ELSE a
  /\ sevent' = <<"none", "none">>
  /\ sstopped' = [sstopped EXCEPT !["arch"] = FALSE,
                                  !["ret"] = @ /\ sc.cfg[c].ret = "none"]
  /\ UNCHANGED <<sticked, othersS>>

\* logger.startArchiver() / logger.startRetention()
StartController(k, c) ==
  /\ sc.created[c] /\ RoomS(1)
  /\ \E shorter \in BOOLEAN : sc' = start(sc, k, c, shorter)
  /\ sevent' = <<"none", "none">>
  /\ sstopped' = [sstopped EXCEPT ![k] = FALSE]
  /\ UNCHANGED <<sticked, othersS>>

\* logger.stopArchiver() / logger.stopRetention()
StopController(k, c) ==
  /\ sc.created[c]
  /\ sc' = stop(sc, k, c)
  /\ sevent' = <<"stop", k>>
  /\ sstopped' = [sstopped EXCEPT ![k] = @ \/ sc.isRunning[k][c]]
  /\ UNCHANGED <<sticked, othersS>>

\* The cron expression of an active task matches the minute: its callback
\* launches a sweep when the process is coordinator of the directory.
TickS(t) ==
  /\ sc.tasks[t].active
  /\ sc.inFlight[sc.tasks[t].kind] < MaxInFlight
  /\ sc' = IF sc.coordinator THEN launch(sc, sc.tasks[t].kind) ELSE sc
  /\ sevent' = <<"tick", sc.tasks[t].kind>>
  /\ sticked' = [sticked EXCEPT ![sc.tasks[t].kind] = @ \/ sc.coordinator]
  /\ UNCHANGED <<sstopped, othersS>>

\* A worker thread ends.
SweepEnds(k) ==
  /\ sc.inFlight[k] > 0
  /\ sc' = [sc EXCEPT !.inFlight[k] = @ - 1]
  /\ sevent' = <<"none", "none">>
  /\ UNCHANGED <<sstopped, sticked, othersS>>

NextS ==
  \/ \E c \in Loggers : CreateLoggerS(c)
  \/ \E k \in Kinds, c \in Loggers : StartController(k, c)
  \/ \E k \in Kinds, c \in Loggers : StopController(k, c)
  \/ \E t \in 1..MaxTasks : t <= Len(sc.tasks) /\ TickS(t)
  \/ \E k \in Kinds : SweepEnds(k)

(***************************************************************************)
(* SpecU: the names of the files a FileWriter opens, by construction, by   *)
(* rotation and after updateOptions. Instants are hours as in SpecA; the   *)
(* minute and second of an overflow name are a stamp 1..MaxStamps.         *)
(***************************************************************************)
\* hours the clock advances
MaxTicksU == 3
\* overflow names that differ in minute and second within one hour
MaxStamps == 2
\* the hour the writer is constructed in: 22:00 UTC of the first day
StartHourU == 24 * FirstDay + 22

Frequencies == {"daily", "hourly"}

\* getLogPath(period): `<period>.log`
getLogPathU(period) == [name |-> "main", day |-> period.day, hh |-> period.hh, n |-> 0]

\* getOverflowPatternU().test(f): an overflow name `<date>~HH-mm-ss*.log` of the
\* date of currentPeriod, and of its hour when the frequency is hourly
getOverflowPatternU(w, f) ==
  /\ f.name = "over" /\ f.day = w.currentPeriod.day
  /\ w.rotationFrequency = "hourly" => f.hh = w.currentPeriod.hh

\* the order of .sort() on overflow names of one date
NameBeforeU(f, g) == f.hh < g.hh \/ (f.hh = g.hh /\ f.n < g.n)

\* getOverflowLogPathSync: the first candidate of generateOverflowCandidates
\* that does not exist, named from the clock
getOverflowLogPathSyncU(w, t, listing) ==
  LET cands == {n \in 1..MaxStamps :
                  [name |-> "over", day |-> UTCDate(t), hh |-> LocalHour(t, w.tz),
                   n |-> n] \notin listing}
  IN [name |-> "over", day |-> UTCDate(t), hh |-> LocalHour(t, w.tz),
      n |-> CHOOSE n \in cands : \A k \in cands : n <= k]

\* findAvailableLogPath(excludeCurrentFile)
findAvailableLogPathU(w, excludeCurrentFile, t, listing, full) ==
  LET mainLogPath == getLogPathU(w.currentPeriod)
      spare == {f \in listing : /\ getOverflowPatternU(w, f)
                               /\ ~(excludeCurrentFile /\ f = w.currentFilePath)
                               /\ f \notin full}
  IN IF /\ ~(excludeCurrentFile /\ w.currentFilePath = mainLogPath)
        /\ (mainLogPath \notin listing \/ mainLogPath \notin full)
     THEN mainLogPath
     ELSE IF spare # {}
          THEN CHOOSE f \in spare : \A g \in spare : g = f \/ NameBeforeU(g, f)
          ELSE getOverflowLogPathSyncU(w, t, listing)

\* the overflow name a rotation may need exists in the model
RoomU(w, t, listing) ==
  \E n \in 1..MaxStamps :
    [name |-> "over", day |-> UTCDate(t), hh |-> LocalHour(t, w.tz), n |-> n] \notin listing

NoFile == [name |-> "none", day |-> 0, hh |-> 0, n |-> 0]

\* constructor: currentPeriod = getPeriodString(); openStream(findAvailableLogPath())
constructorU(frequency, tz, t) ==
  LET w == [rotationFrequency |-> frequency, tz |-> tz,
            currentPeriod |-> getPeriodString(t, frequency, tz),
            currentFilePath |-> NoFile]
  IN [w EXCEPT !.currentFilePath = findAvailableLogPathU(w, FALSE, t, {}, {})]

\* rotateStream: currentPeriod = getPeriodString(); openStream(findAvailableLogPath(dueToSize))
rotateStreamU(w, bySize, t, listing, full) ==
  LET w1 == [w EXCEPT !.currentPeriod = getPeriodString(t, w.rotationFrequency, w.tz)]
  IN [w1 EXCEPT !.currentFilePath = findAvailableLogPathU(w1, bySize, t, listing, full)]

\* updateOptions, the rotation frequency: hourly replaces daily and the period
\* is computed again
updateOptionsU(w, frequency, t) ==
  IF frequency = "hourly" /\ w.rotationFrequency = "daily"
  THEN [w EXCEPT !.rotationFrequency = "hourly",
                 !.currentPeriod = getPeriodString(t, "hourly", w.tz)]
  ELSE w

InitU ==
  /\ unow = StartHourU
  /\ \E frequency \in Frequencies, tz \in {0, 1} :
       uw = constructorU(frequency, tz, StartHourU)
  /\ ufiles = {uw.currentFilePath}
  /\ ufull = {}
  /\ uappends = {}

IdleU ==
  /\ unow = StartHourU
  /\ uw = constructorU("daily", 0, StartHourU)
  /\ ufiles = {uw.currentFilePath}
  /\ ufull = {}
  /\ uappends = {}

\* The caller invokes write(): the rotation check, the rotation when it is
\* needed, and the line reaches the file that is current afterwards.
WriteU ==
  LET wouldExceedSize == uw.currentFilePath \in ufull
      needsRotation ==
        getPeriodString(unow, uw.rotationFrequency, uw.tz) # uw.currentPeriod
          \/ wouldExceedSize
      w == IF needsRotation
           THEN rotateStreamU(uw, wouldExceedSize, unow, ufiles, ufull)
           ELSE uw
  IN /\ needsRotation => RoomU(uw, unow, ufiles)
     /\ uw' = w
     /\ ufiles' = ufiles \cup {w.currentFilePath}
     /\ uappends' = uappends \cup {<<w.currentFilePath, w.currentPeriod>>}
     /\ UNCHANGED <<unow, ufull, othersU>>

\* Another logger is created for the directory: getOrCreateFileWriter calls
\* updateOptions with its options.
UpdateOptionsU ==
  /\ \E frequency \in Frequencies : uw' = updateOptionsU(uw, frequency, unow)
  /\ UNCHANGED <<unow, ufiles, ufull, uappends, othersU>>

\* The current file reaches maxLogSizeBytes.
FillsU ==
  /\ uw.currentFilePath \notin ufull
  /\ ufull' = ufull \cup {uw.currentFilePath}
  /\ UNCHANGED <<uw, unow, ufiles, uappends, othersU>>

\* An hour passes.
TickU ==
  /\ unow < StartHourU + MaxTicksU
  /\ unow' = unow + 1
  /\ UNCHANGED <<uw, ufiles, ufull, uappends, othersU>>

NextU == WriteU \/ UpdateOptionsU \/ FillsU \/ TickU

(***************************************************************************)
(* The specifications.                                                     *)
(***************************************************************************)
InitW == InitWriter /\ IdleR /\ IdleC /\ IdleM /\ IdleA /\ IdleN /\ IdleK /\ IdleP /\ IdleE /\ IdleG /\ IdleV /\ IdleT /\ IdleX /\ IdleS /\ IdleU
SpecW == InitW /\ [][NextW]_vars
SpecQ == InitW /\ [][NextQ]_vars
InitHeld == InitHeldWriter /\ IdleR /\ IdleC /\ IdleM /\ IdleA /\ IdleN /\ IdleK /\ IdleP /\ IdleE /\ IdleG /\ IdleV /\ IdleT /\ IdleX /\ IdleS /\ IdleU
SpecWF == InitHeld /\ [][NextHeld]_vars /\ FairHeld

InitRace == InitR /\ IdleW /\ IdleC /\ IdleM /\ IdleA /\ IdleN /\ IdleK /\ IdleP /\ IdleE /\ IdleG /\ IdleV /\ IdleT /\ IdleX /\ IdleS /\ IdleU
SpecR == InitRace /\ [][NextR]_vars

InitElection == InitC /\ IdleW /\ IdleR /\ IdleM /\ IdleA /\ IdleN /\ IdleK /\ IdleP /\ IdleE /\ IdleG /\ IdleV /\ IdleT /\ IdleX /\ IdleS /\ IdleU
SpecC == InitElection /\ [][NextC]_vars
\* Every step that can be taken is taken eventually: claims in progress
\* complete and timers fire.
SpecCF == SpecC /\ WF_vars(NextC)

InitMaintenance == InitM /\ IdleW /\ IdleR /\ IdleC /\ IdleA /\ IdleN /\ IdleK /\ IdleP /\ IdleE /\ IdleG /\ IdleV /\ IdleT /\ IdleX /\ IdleS /\ IdleU
SpecM == InitMaintenance /\ [][NextM]_vars

InitArchive == InitA /\ IdleW /\ IdleR /\ IdleC /\ IdleM /\ IdleN /\ IdleK /\ IdleP /\ IdleE /\ IdleG /\ IdleV /\ IdleT /\ IdleX /\ IdleS /\ IdleU
SpecA == InitArchive /\ [][NextA]_vars

InitSweeps == InitN /\ IdleW /\ IdleR /\ IdleC /\ IdleM /\ IdleA /\ IdleK /\ IdleP /\ IdleE /\ IdleG /\ IdleV /\ IdleT /\ IdleX /\ IdleS /\ IdleU
SpecN == InitSweeps /\ [][NextN]_vars

InitRetention == InitK /\ IdleW /\ IdleR /\ IdleC /\ IdleM /\ IdleA /\ IdleN /\ IdleP /\ IdleE /\ IdleG /\ IdleV /\ IdleT /\ IdleX /\ IdleS /\ IdleU
SpecK == InitRetention /\ [][NextK]_vars

InitNames == InitP /\ IdleW /\ IdleR /\ IdleC /\ IdleM /\ IdleA /\ IdleN /\ IdleK /\ IdleE /\ IdleG /\ IdleV /\ IdleT /\ IdleX /\ IdleS /\ IdleU
SpecP == InitNames /\ [][NextP]_vars

InitFaults ==
  InitE /\ IdleW /\ IdleR /\ IdleC /\ IdleM /\ IdleA /\ IdleN /\ IdleK /\ IdleP /\ IdleG
  /\ IdleV /\ IdleT /\ IdleX /\ IdleS /\ IdleU
SpecE == InitFaults /\ [][NextE]_vars

InitRegistry ==
  InitG /\ IdleW /\ IdleR /\ IdleC /\ IdleM /\ IdleA /\ IdleN /\ IdleK /\ IdleP /\ IdleE
  /\ IdleV /\ IdleT /\ IdleX /\ IdleS /\ IdleU
SpecG == InitRegistry /\ [][NextG]_vars

InitValidation ==
  InitV /\ IdleW /\ IdleR /\ IdleC /\ IdleM /\ IdleA /\ IdleN /\ IdleK /\ IdleP /\ IdleE
  /\ IdleG /\ IdleT /\ IdleX /\ IdleS /\ IdleU
SpecV == InitValidation /\ [][NextV]_vars

InitRoundTrip ==
  InitT /\ IdleW /\ IdleR /\ IdleC /\ IdleM /\ IdleA /\ IdleN /\ IdleK /\ IdleP /\ IdleE
  /\ IdleG /\ IdleV /\ IdleX /\ IdleS /\ IdleU
SpecT == InitRoundTrip /\ [][NextT]_vars

InitEnding ==
  InitX /\ IdleW /\ IdleR /\ IdleC /\ IdleM /\ IdleA /\ IdleN /\ IdleK /\ IdleP /\ IdleE
  /\ IdleG /\ IdleV /\ IdleT /\ IdleS /\ IdleU
SpecX == InitEnding /\ [][NextX]_vars

InitControllers ==
  InitS /\ IdleW /\ IdleR /\ IdleC /\ IdleM /\ IdleA /\ IdleN /\ IdleK /\ IdleP /\ IdleE
  /\ IdleG /\ IdleV /\ IdleT /\ IdleX /\ IdleU
SpecS == InitControllers /\ [][NextS]_vars

InitFrequency ==
  InitU /\ IdleW /\ IdleR /\ IdleC /\ IdleM /\ IdleA /\ IdleN /\ IdleK /\ IdleP /\ IdleE
  /\ IdleG /\ IdleV /\ IdleT /\ IdleX /\ IdleS
SpecU == InitFrequency /\ [][NextU]_vars

(***************************************************************************)
(* Claims about one writer (SpecW).                                        *)
(***************************************************************************)
\* The lines of this writer in file p, and the streams that still hold chunks.
NoQueued == \A s \in 1..Len(streams) : streams[s].queue = <<>>
Range(f) == {f[i] : i \in DOMAIN f}

\* C1: for a single writer, lines reach disk in the order write() accepted
\* them, under any interleaving of write, timer flush, rotation and close: the
\* ids in physical append order are strictly increasing.
C1_SubmissionOrder ==
  \A i, j \in DOMAIN hist : i < j => hist[i] < hist[j]

\* C1, within one file: the writer's lines in each file are in the order
\* write() accepted them. One stream appends its chunks in order, so this
\* does not depend on how the operating system schedules two streams.
C1_OrderWithinFile ==
  \A p \in Paths : \A i, j \in DOMAIN files[p] : i < j => files[p][i] < files[p][j]

\* A rotation happened and lines accepted before and after it are on disk.
C1_Reached ==
  /\ "rotation" \in seen /\ Len(hist) >= 2 /\ Len(streams) >= 2

\* C2: when no write trips a threshold and nothing rotates, after a forced
\* flush (timer or close) has been written the current file holds exactly the
\* lines accepted up to that flush, each once and in order, every one
\* newline-terminated; what was accepted later is the buffer, whose byte count
\* is bufferBytes (empty and 0 when nothing was accepted later).
C2_ForcedFlushExact ==
  (seen = {} /\ NoQueued)
    => /\ files[currentFilePath] = [i \in 1..flushedAt |-> i]
       /\ hist = [i \in 1..flushedAt |-> i]
       /\ buffer = [i \in 1..(Len(sub) - flushedAt) |-> flushedAt + i]
       /\ bufferBytes = SumBytes(buffer, sub)
       /\ \A i \in DOMAIN sub : sub[i].nl
       /\ pendingWrites = <<>>

\* Two lines were flushed by a forced flush, nothing rotated, the buffer is empty.
C2_Reached ==
  /\ seen = {} /\ NoQueued /\ flushedAt >= 2 /\ buffer = <<>> /\ bufferBytes = 0
  /\ Len(files[currentFilePath]) >= 2

\* C3: a line that trips the size check of write() is never appended to the
\* file that was current at that moment.
C3_TrippingLineNotInOldFile ==
  \A p \in Paths : \A i \in Range(files[p]) : trig[i] # p

\* A line that tripped the size check is on disk.
C3_Reached ==
  \E p \in Paths : \E i \in Range(files[p]) : trig[i] # NoPath

\* C17: close() is idempotent: in every state in which close() has been
\* called, be the first call still in progress or over, another call changes
\* nothing (no flush, no stream end, no chunk queued), so the disk gets what
\* one call gives it; and no line is on disk twice.
C17_CloseIdempotent ==
  /\ isClosed => close(World) = World
  /\ \A i, j \in DOMAIN hist : i # j => hist[i] # hist[j]

\* C17 witness: close() was called with lines in the buffer and its flush is
\* still in progress.
C17_Reached ==
  /\ isClosed /\ pc["C"] = "fwait" /\ "C" \notin cb
  /\ \E s \in 1..Len(streams) : streams[s].queue # <<>>

\* The primary file of the first period was full when the writer was
\* constructed.
PrimaryFullAtStart == found.primary >= maxLogSizeBytes

\* The constructor, over a full primary file and no overflow file with spare
\* capacity, opens an overflow path that is not in the directory.
OpensNewOverflow ==
  \A b \in InitPrimarySizes, l \in InitLocks : \A o \in InitOverflowSizes(b) :
    (b >= maxLogSizeBytes /\ (o < 0 \/ o >= maxLogSizeBytes)) =>
      LET opened == constructor(b, o, l).currentFilePath
      IN /\ opened \in Paths /\ opened[2] > 0
         /\ opened \notin Blank(b, o, l).exists

\* C18: a constructor that finds the primary file of the period full and no
\* overflow file with spare capacity opens an overflow file that was not in
\* the directory; and whenever the primary file was full at construction, no
\* stream is ever opened on it and no line of the writer gets into it.
C18_FullPrimaryAtStart ==
  /\ OpensNewOverflow
  /\ PrimaryFullAtStart =>
       /\ files[getLogPath(0)] = <<>>
       /\ \A s \in 1..Len(streams) : streams[s].path # getLogPath(0)

\* C18 witness: the primary file and the only overflow file were full at
\* construction, a line is on disk in a later overflow file, and the writer
\* has rotated by size since.
C18_Reached ==
  /\ PrimaryFullAtStart /\ found.overflow >= maxLogSizeBytes
  /\ files[<<0, 2>>] # <<>>
  /\ seen # {}

\* C20: no file of the directory is ever larger than maxLogSizeBytes plus one
\* buffer (maxBufferBytes), whatever this writer and its peers have appended.
C20_SizeBound ==
  \A p \in exists : FileSize(World, p) <= maxLogSizeBytes + maxBufferBytes

\* C30: a write() accepted while a rotation is in flight appends the line to
\* the pending queue and changes nothing else: not the buffer, bufferBytes or
\* bytesWritten, not the streams or the files, and it starts no rotation
\* (no chain moves, isRotating stays set).
C30_PendingOnly ==
  [][ (isRotating /\ Len(sub') = Len(sub) + 1) =>
        /\ pendingWrites' = Append(pendingWrites, Len(sub'))
        /\ UNCHANGED <<buffer, bufferBytes, bytesWritten, streams, exists, files,
                       stream, currentFilePath, currentPeriod, isRotating,
                       isFlushing, pc, tries, gotLock, dueToSize, rlock, seen, hist>> ]_vars

\* C30 witness: a rotation is in flight and the pending queue holds the line
\* that started it and a line written since.
C30_Reached == isRotating /\ Len(pendingWrites) >= 2

\* The processes between a successful acquire and their own release.
Holders == {p \in Procs : rp[p].got /\ rp[p].pc \in {"find", "release"}}

\* C4: at most one process holds the rotation lock at any instant, also when
\* the attempts find a marker older than the staleness threshold.
C4_OneLockHolder == Cardinality(Holders) <= 1

\* C7: processes that rotate away from the same full file converge: the
\* rotation event creates at most one new overflow file.
C7_OneOverflowFile == Cardinality(dir) <= 1

\* C5: among the processes sharing a log directory at most one has
\* isCoordinator(dir) = true at any instant, a cluster primary with its
\* workers and a late heartbeat included.
C5_OneCoordinator == Cardinality({p \in Cands : isCoordinator(p)}) <= 1

\* C6: once the coordinator among worker candidates has released its lock, a
\* different candidate becomes coordinator.
C6_Takeover ==
  []((crel # 0 /\ \A p \in Cands : cand[p].kind = "worker")
       => <>(\E q \in Cands : q # crel /\ isCoordinator(q)))

\* C8: at most one destructive maintenance sweep (archive or retention) runs
\* on the directory at any instant, on creation and when both schedules fire
\* in the same minute included.
C8_OneSweep == mrun.arch + mrun.ret <= 1

\* C15: the archiver started by startArchiver launches a sweep only in a
\* process for which isCoordinator(logDir) is true: every archive worker
\* started by createLogger (runOnCreation) or by a tick of the archive cron
\* task is started in the coordinator.
C15_ArchiverOnlyInCoordinator ==
  [][ (mrun'.arch > mrun.arch /\ (mcreated' # mcreated \/ mdue'.arch # mdue.arch))
        => mcfg.coordinator ]_vars

\* C16: a retention sweep starts only in a process for which
\* isCoordinator(logDir) is true, be it started on creation, by a tick of the
\* retention cron task or by runRetention().
C16_RetentionOnlyInCoordinator ==
  [][ mrun'.ret > mrun.ret => mcfg.coordinator ]_vars

\* The period an instant lies in, as a number that grows with time, read on
\* the UTC calendar and on the local calendar: the hour, the day, the week
\* (from Monday), the month.
BucketUTC(t) ==
  CASE acfg.frequency = "hourly" -> t
    [] acfg.frequency = "daily" -> UTCDate(t)
    [] acfg.frequency = "weekly" -> UTCDate(t) \div 7
    [] acfg.frequency = "monthly" -> MonthOf(UTCDate(t))

BucketLocal(t) ==
  CASE acfg.frequency = "hourly" -> t
    [] acfg.frequency = "daily" -> LocalDay(t, acfg.tz)
    [] acfg.frequency = "weekly" -> LocalDay(t, acfg.tz) \div 7
    [] acfg.frequency = "monthly" -> MonthOf(LocalDay(t, acfg.tz))

\* t lies in a period before the period of u, or in the same period, on
\* both calendars.
PeriodBefore(t, u) == BucketUTC(t) < BucketUTC(u) /\ BucketLocal(t) < BucketLocal(u)
PeriodSame(t, u) == BucketUTC(t) = BucketUTC(u) /\ BucketLocal(t) = BucketLocal(u)

\* The label of the archived file e[1] is strictly before the current label
\* of the sweep that archived it.
ArchivedLabelBefore(e) ==
  LabelBefore(getFilePeriod(e[1], acfg.frequency, acfg.tz),
              getCurrentPeriod(e[2], acfg.frequency, acfg.tz))

\* C9: a sweep compresses and deletes only files whose period is strictly
\* before the period of the sweep's own `now`: for every archived file, its
\* label is before the sweep's current label, or at least the file was not
\* created in the period the sweep runs in.
C9_OnlyPastPeriods ==
  \A e \in adone : ArchivedLabelBefore(e) \/ ~PeriodSame(e[1].born, e[2])

\* C10: after a sweep without error, every well-formed file it listed whose
\* period is before the current one is gone from the directory and is in
\* exactly one artifact, named after the file's period; every file of the
\* current period is still in the directory and in no artifact.
C10_SweepResult ==
  asweep.pc = "done" =>
    \A f \in asweep.snap :
      /\ (f.day >= 0 /\ PeriodBefore(f.born, asweep.at))
           => /\ f \notin alogs
              /\ Cardinality({a \in aarch : f \in a.members}) = 1
              /\ \A a \in aarch : f \in a.members
                    => a.period = getFilePeriod(f, acfg.frequency, acfg.tz)
      /\ (f.day >= 0 /\ PeriodSame(f.born, asweep.at))
           => /\ f \in alogs
              /\ \A a \in aarch : f \notin a.members

(***************************************************************************)
(* Claims about archive sweeps running at the same time (SpecN).           *)
(***************************************************************************)
\* the sweeps that have started
Started == {s \in Sweepers : nsw[s].pc # "idle"}

C12_SweepContinues ==
  \A s \in Sweepers : nsw[s].pc = "tarError" => Cardinality(nsw[s].todo) <= 1

\* C13: no step replaces or removes an artifact that exists, and a new
\* artifact of a period gets the first name that is free: the plain name,
\* then counter 1, 2, ...
C13_NoOverwrite ==
  [][ /\ \A a \in narch : a \in narch'
      /\ \A a \in narch' \ narch : a.counter = archiveCounter(a.period, narch, 0) ]_vars

(***************************************************************************)
(* Claims about the retention sweep (SpecK).                               *)
(***************************************************************************)
\* the name has a date before the cutoff of the sweep
LogBeforeCutoff(f) ==
  \E fileDate \in parseLogFilename(f, kcfg.tz) :
     fileDate < getCutoffDate(ksweep.at, RetentionValue, kcfg.unit)
ArtifactBeforeCutoff(a) ==
  \E fileDate \in parseArchiveFilename(a, kcfg.tz) :
     fileDate < getCutoffDate(ksweep.at, RetentionValue, kcfg.unit)

\* C14: after a retention sweep without a failed unlink, the log files and
\* artifacts it removed are exactly those whose name has a date strictly
\* before cutoff = now - retention; names without a date are left in place,
\* and so is the file of the period the sweep ran in.
C14_RetentionExact ==
  (ksweep.pc = "done" /\ ~ksweep.failed) =>
    /\ \A f \in ksweep.listed : LogBeforeCutoff(f) <=> f \notin klogs
    /\ \A a \in karch : ~ArtifactBeforeCutoff(a)
    /\ karch # {} => \A a \in OldArtifacts : ~ArtifactBeforeCutoff(a) => a \in karch
    /\ \A f \in ksweep.listed :
         (/\ f.day = getPeriodString(ksweep.at, kcfg.rotation, kcfg.tz).day
          /\ f.hh = getPeriodString(ksweep.at, kcfg.rotation, kcfg.tz).hh)
           => f \in klogs

(***************************************************************************)
(* Claims about the overflow names (SpecP).                                *)
(***************************************************************************)
\* The overflow files of the writer's period that had spare capacity when it
\* was constructed.
SpareAtStart ==
  {f \in pwr.dir : getOverflowPattern(pwr.period, f.name) /\ ~f.full}

\* C19: a writer constructed over a full primary file opens, when overflow
\* files of the period with spare capacity exist, one of them, and none of
\* the others is more recent than it, by the instant of its creation or by
\* the instant its name was made; it creates no file. When none has spare
\* capacity it opens a name that is not in the directory.
C19_ReuseNewestSpare ==
  (pwr.built /\ pwr.primaryFull) =>
    IF SpareAtStart # {}
    THEN \E f \in SpareAtStart :
           /\ pwr.chose = OverflowPath(f.name)
           /\ \A g \in SpareAtStart : g.made <= f.made \/ g.named <= f.named
    ELSE ~pwr.chose.main /\ pwr.chose.name \notin {f.name : f \in pwr.dir}

\* C25: of two overflow files of one period, the one that was named and
\* created first has the name that sorts first.
C25_NameOrderIsCreationOrder ==
  \A f, g \in pfiles :
    ( /\ f.name[1] = g.name[1]
      /\ pcfg.rotation = "hourly" => f.name[2] = g.name[2]
      /\ f.named < g.named /\ f.made < g.made ) => NameBefore(f.name, g.name)

(***************************************************************************)
(* Claims about the faults of the writer (SpecE).                          *)
(***************************************************************************)
\* C21: no stream is opened with an errorCounter above the budget of three
\* reopens; once a stream opened by the third reopen has emitted an error the
\* writer is disabled; a disabled writer has no stream, opens none and stays
\* disabled; a write() on it returns at the guard and changes nothing else;
\* and every error finds a handler.
C21_DisabledAfterRetries ==
  [][ /\ \A s \in 1..Len(ew'.streams) : ew'.streams[s].counter <= RetryBudget
      /\ (\E s \in 1..Len(ew'.streams) :
            ew'.streams[s].counter = RetryBudget /\ ew'.streams[s].state = "errored")
           => ~ew'.isEnabled
      /\ ~ew'.isEnabled => ew'.stream = 0
      /\ ~ew.isEnabled => ~ew'.isEnabled /\ Len(ew'.streams) = Len(ew.streams)
      /\ (~ew.isEnabled /\ ew'.calls = ew.calls + 1) =>
           ew' = [ew EXCEPT !.calls = @ + 1, !.refused = @ + 1]
      /\ ~ew'.uncaught ]_vars

\* C21 witness: the stream of the third reopen has failed, the writer is
\* disabled with lines on disk from before, and write() was called since.
C21_Reached ==
  /\ \E s \in 1..Len(ew.streams) :
       ew.streams[s].counter = RetryBudget /\ ew.streams[s].state = "errored"
  /\ ~ew.isEnabled /\ ew.disk[0] > 0
  /\ ew.refused > 0

\* C22: when mkdirSync has failed in the constructor nothing was thrown, the
\* writer is disabled, it has no stream and no flush interval, and no write()
\* ever puts a line in the buffer or on disk.
C22_DirectoryFailure ==
  ew.dirFailed =>
    /\ ~ew.isEnabled /\ ew.stream = 0 /\ ew.streams = <<>>
    /\ ~ew.flushTimer /\ ew.timers = {}
    /\ ew.buffer = 0 /\ \A f \in DOMAIN ew.disk : ew.disk[f] = 0
    /\ ~ew.uncaught

\* C22 witness: the directory could not be created and write() was called.
C22_Reached == ew.dirFailed /\ ew.refused = MaxCalls

(***************************************************************************)
(* Claims about the writer registry (SpecG).                               *)
(***************************************************************************)
\* The directories for which a writer was requested.
Requested == {c[1] : c \in gcalls}

\* C23: every directory that was requested has exactly one FileWriter, and
\* a call for a directory that has a writer constructs none and returns the
\* writer of that directory.
C23_OneWriterPerDirectory ==
  /\ \A d \in Requested :
       Cardinality({i \in 1..Len(gwriters) : gwriters[i].dir = d}) = 1
  /\ gret # 0 => \A i \in 1..Len(gwriters) :
                   gwriters[i].dir = gwriters[gret].dir => i = gret

\* The options registered for directory d.
RegisteredFor(d) == {c[2] : c \in {e \in gcalls : e[1] = d}}

\* The least of a set of numbers.
Least(S) == CHOOSE x \in S : \A y \in S : x <= y

\* C24: the options of a directory's writer are the least flushInterval,
\* maxBufferLines, maxBufferKilobytes and maxLogSizeMegabytes registered for
\* the directory, and hourly rotation iff some registration asked for it
\* (which does not depend on the order, nor on repetitions, of the
\* registrations).
C24_StricterWins ==
  \A i \in 1..Len(gwriters) :
    LET regs == RegisteredFor(gwriters[i].dir)
        o == gwriters[i].opts
    IN /\ o.flushInterval = Least({r.flushInterval : r \in regs})
       /\ o.maxBufferLines = Least({r.maxBufferLines : r \in regs})
       /\ o.maxBufferKilobytes = Least({r.maxBufferKilobytes : r \in regs})
       /\ o.maxLogSizeMegabytes = Least({r.maxLogSizeMegabytes : r \in regs})
       /\ o.rotationFrequency = "hourly" <=> \E r \in regs : r.rotationFrequency = "hourly"

(***************************************************************************)
(* Claims about the validation of the options (SpecV).                     *)
(***************************************************************************)
\* retention.period >= archive.frequency >= file.rotationFrequency, in hours,
\* for resolved options r: the comparisons with the archive frequency only
\* when archiving is enabled, those with the retention period only when one
\* is set; and no retention in hours with daily rotation.
HierarchyHolds(r) ==
  /\ r.archiveDisabled \/ frequencyToHours(r.archive) >= frequencyToHours(r.rotation)
  /\ r.retention # NoRetentionPeriod =>
       /\ r.archiveDisabled \/ retentionToHours(r.retention) >= frequencyToHours(r.archive)
       /\ retentionToHours(r.retention) >= frequencyToHours(r.rotation)
       /\ ~(r.retention.unit = "h" /\ r.rotation = "daily")

PeriodStart(t, frequency, tz) ==
  CASE frequency = "hourly" -> t
    [] frequency = "daily" -> 24 * LocalDay(t, tz) - tz
    [] frequency = "weekly" -> 24 * (LocalDay(t, tz) - (LocalDay(t, tz) % 7)) - tz
    [] frequency = "monthly" -> 24 * MonthFirstDay(MonthOf(LocalDay(t, tz))) - tz

\* C26: the name of the rotation file generated at an instant parses to the
\* start of the rotation period of that instant, and the name of the
\* artifact generated for the file, with or without a counter, parses to
\* the start of the archive period of that instant.
C26_RoundTrip ==
  tparsed # NotParsed =>
    /\ tparsed.log = {PeriodStart(tnow, tcfg.rotation, tcfg.tz)}
    /\ tparsed.arch = {PeriodStart(tnow, tcfg.frequency, tcfg.tz)}

(***************************************************************************)
(* Claims about the end of a coordinator (SpecX).                          *)
(***************************************************************************)
\* C27: when the process has ended by normal exit, SIGINT, SIGTERM or an
\* uncaught exception, no directory it was coordinator of at that moment has
\* a marker made by it, coordinatorRegistry is empty and no heartbeat is set.
C27_MarkerReleasedAtEnd ==
  xp.ended \in Handled =>
    /\ \A d \in xp.atEnd : xmarker[d].owner # 1
    /\ xp.registry = {} /\ xp.timers = {}

\* C27 witness: the process ended by an uncaught exception while the markers
\* of two directories were its own.
C27_Reached ==
  xp.ended = "uncaughtException" /\ Cardinality(xp.held) >= 2

(***************************************************************************)
(* Claims about the controllers (SpecS).                                   *)
(***************************************************************************)
\* C28: while stop() of a started controller has returned and start() has
\* not been called since, no tick launches a sweep of that kind and no cron
\* task of that kind is active; and the stop() itself leaves the sweeps in
\* flight as they are.
C28_StopPreventsTicks ==
  [][ \A k \in Kinds :
        /\ (sstopped[k] /\ sevent' = <<"tick", k>>) => sc'.inFlight = sc.inFlight
        /\ sstopped'[k] => \A t \in 1..Len(sc'.tasks) :
                              sc'.tasks[t].kind = k => ~sc'.tasks[t].active
        /\ sevent' = <<"stop", k>> => sc'.inFlight = sc.inFlight ]_vars

\* C28 witness: a stop() has returned after a restart of the scheduler, a
\* sweep launched by a tick is still in flight.
C28_Reached ==
  /\ sstopped["arch"] /\ sticked["arch"] /\ sc.inFlight["arch"] > 0
  /\ sevent = <<"stop", "arch">> /\ Len(sc.tasks) >= 3

\* the cron tasks of kind k that are active
ActiveTasks(k) == {t \in 1..Len(sc.tasks) : sc.tasks[t].kind = k /\ sc.tasks[t].active}

\* C40: a controller whose isRunning is true has an entry in the registry of
\* its kind whose cron task is active, and a directory has at most one
\* active cron task of a kind.
C40_ControllerAndRegistryAgree ==
  \A k \in Kinds :
    /\ Cardinality(ActiveTasks(k)) <= 1
    /\ \A c \in Loggers :
         sc.isRunning[k][c] =>
           /\ sc.registry[k].task # 0
           /\ sc.registry[k].task \in ActiveTasks(k)

\* C32: a line that was in the buffer when a flush, outside a rotation,
\* found the current file at or above maxLogSizeBytes on disk is never
\* appended to that file.
C32_FullFileNotAppended ==
  \A e \in skipped : \A i \in 1..Len(files[e[2]]) : files[e[2]][i] # e[1]

\* The chains that are inside rotateStream: waiting for the lock, past the
\* lock and before the switch, or (the rotation of write()) awaiting the
\* flush to the old stream.
InRotateStream ==
  {c \in Chains : pc[c] \in {"lockwait", "locked"} \/ (c = "R" /\ pc[c] = "rflush")}

\* C34: at most one execution of rotateStream is in progress in the writer.
C34_OneRotationAtATime == Cardinality(InRotateStream) <= 1

C33_CloseDrains ==
  [][(pc["C"] # "closed" /\ pc'["C"] = "closed") =>
       /\ \A i \in 1..closedAt' : i \in Range(hist')
       /\ stream' # 0 /\ streams'[stream'].ended]_vars

\* C35: in a writer that has not been closed, whenever isRotating returns to
\* false the pending queue is empty: no accepted line is left in it.
C35_NothingStranded ==
  [][(~isClosed' /\ isRotating /\ ~isRotating') => pendingWrites' = <<>>]_vars

\* C37: after close() has resolved the writer opens no stream, appends
\* nothing to disk, accepts no line into the buffer and has no flush timer.
C37_QuiescentAfterClose ==
  [][pc["C"] = "closed" =>
       /\ Len(streams') = Len(streams)
       /\ files' = files
       /\ buffer' = buffer \/ Len(buffer') < Len(buffer)
       /\ ~flushTimer']_vars

\* C39: bytesWritten is the size the current file had when its stream was
\* opened plus the bytes of the lines the writer accepted for it since: those
\* it wrote to the stream and those in the buffer (in a writer that has not
\* been closed).
C39_BytesWrittenExact ==
  ~isClosed =>
    bytesWritten = streams[stream].opened
                     + SumBytes(streams[stream].sent, sub) + SumBytes(buffer, sub)

\* C36: the file of the current stream only moves forward: no step replaces
\* the current stream by a stream on a file the writer has rotated away from
\* (files are numbered in the order the rotations open them).
C36_CurrentFileMovesForward ==
  [][(ew.stream # 0 /\ ew'.stream # 0) =>
       ew'.streams[ew'.stream].path >= ew.streams[ew.stream].path]_vars

\* f is the primary file of the period the writer tracks or one of its
\* overflow files
BelongsToPeriod(f, period, frequency) ==
  \/ f = getLogPathU(period)
  \/ /\ f.name = "over" /\ f.day = period.day
     /\ frequency = "hourly" => f.hh = period.hh

\* C38: currentFilePath is the primary file of currentPeriod or an overflow
\* file of currentPeriod, and every line is appended to a file of the period
\* the writer tracks at that moment.
C38_FileOfTrackedPeriod ==
  /\ BelongsToPeriod(uw.currentFilePath, uw.currentPeriod, uw.rotationFrequency)
  /\ \A a \in uappends : BelongsToPeriod(a[1], a[2], IF a[2].hh = -1 THEN "daily" ELSE "hourly")

====
